---- MODULE Spec2Model ----
(***************************************************************************)
(* Model of the Ithomiini Maps data pipeline (scripts/process_data.py and  *)
(* scripts/gbif_download_api.py).                                          *)
(*                                                                         *)
(* Strings are sequences of one-character strings, so that lower(),        *)
(* strip(), title(), split() and the regular expressions of the scripts    *)
(* are computed character by character.  A missing value (Python None, or  *)
(* pandas NaN) is the value None below; a number is a one-element          *)
(* sequence <<n>> and a missing number (NaN) is <<>>.                      *)
(***************************************************************************)
EXTENDS Integers, Sequences, FiniteSets, TLC

\* ------------------------------------------------------------------------
\* Bounds of the model
\* ------------------------------------------------------------------------
MaxRef == 2
MaxSanger == 1
MaxGbif == 1

\* ------------------------------------------------------------------------
\* Characters and Python string primitives
\* ------------------------------------------------------------------------
None == <<"<None>">>

UpperAlpha ==
  <<"A","B","C","D","E","F","G","H","I","J","K","L","M",
    "N","O","P","Q","R","S","T","U","V","W","X","Y","Z">>

LowerAlpha ==
  <<"a","b","c","d","e","f","g","h","i","j","k","l","m",
    "n","o","p","q","r","s","t","u","v","w","x","y","z">>

Digits == <<"0","1","2","3","4","5","6","7","8","9">>

IsUpperCh(c) == \E i \in 1..26 : UpperAlpha[i] = c
IsLowerCh(c) == \E i \in 1..26 : LowerAlpha[i] = c
IsAlphaCh(c) == IsUpperCh(c) \/ IsLowerCh(c)
IsDigitCh(c) == \E i \in 1..10 : Digits[i] = c
IsSpaceCh(c) == c = " "

DigitVal(c) == (CHOOSE i \in 1..10 : Digits[i] = c) - 1

LowerCh(c) ==
  IF IsUpperCh(c) THEN LowerAlpha[CHOOSE i \in 1..26 : UpperAlpha[i] = c] ELSE c

UpperCh(c) ==
  IF IsLowerCh(c) THEN UpperAlpha[CHOOSE i \in 1..26 : LowerAlpha[i] = c] ELSE c

\* str.lower()
Lower(s) == [i \in 1..Len(s) |-> LowerCh(s[i])]

\* str.upper()
Upper(s) == [i \in 1..Len(s) |-> UpperCh(s[i])]

\* str.strip(): drop leading and trailing whitespace
Strip(s) ==
  IF \A i \in 1..Len(s) : IsSpaceCh(s[i]) THEN <<>>
  ELSE LET a == CHOOSE i \in 1..Len(s) :
                  /\ ~IsSpaceCh(s[i])
                  /\ \A j \in 1..(i-1) : IsSpaceCh(s[j])
           b == CHOOSE i \in 1..Len(s) :
                  /\ ~IsSpaceCh(s[i])
                  /\ \A j \in (i+1)..Len(s) : IsSpaceCh(s[j])
       IN SubSeq(s, a, b)

\* str.title(): a cased character is upper-cased when the previous character
\* is not cased, lower-cased otherwise
Title(s) ==
  [i \in 1..Len(s) |->
     IF IsAlphaCh(s[i])
     THEN IF i > 1 /\ IsAlphaCh(s[i-1]) THEN LowerCh(s[i]) ELSE UpperCh(s[i])
     ELSE s[i]]

\* str.split(): the maximal runs of non-whitespace characters, in order
RECURSIVE SplitFrom(_, _)
SplitFrom(s, i) ==
  IF i > Len(s) THEN <<>>
  ELSE IF IsSpaceCh(s[i]) THEN SplitFrom(s, i + 1)
  ELSE LET e == CHOOSE k \in i..Len(s) :
                  /\ \A j \in i..k : ~IsSpaceCh(s[j])
                  /\ (k = Len(s) \/ IsSpaceCh(s[k+1]))
       IN <<SubSeq(s, i, e)>> \o SplitFrom(s, e + 1)

Split(s) == SplitFrom(s, 1)

\* ' '.join(parts)
RECURSIVE JoinSp(_)
JoinSp(parts) ==
  IF Len(parts) = 0 THEN <<>>
  ELSE IF Len(parts) = 1 THEN parts[1]
  ELSE parts[1] \o <<" ">> \o JoinSp(Tail(parts))

\* pd.isna(x): None and NaN are both the missing value here
IsNa(x) == x = None

\* str(x) of a cell: a missing cell read by pandas is NaN, whose str is 'nan'
Str(x) == IF x = None THEN <<"n","a","n">> ELSE x

\* Python truthiness of a string-or-None value that is not NaN
Truthy(x) == x # None /\ x # <<>>

\* ------------------------------------------------------------------------
\* String literals of the scripts
\* ------------------------------------------------------------------------
S_empty == <<>>
S_nan == <<"n","a","n">>
S_NAN == <<"N","A","N">>
S_None == <<"N","o","n","e">>
S_NONE == <<"N","O","N","E">>
S_NA == <<"N","A">>
S_Unknown == <<"U","n","k","n","o","w","n">>
S_UNKNOWN == <<"U","N","K","N","O","W","N">>
S_UnknownSpecies == S_Unknown \o <<" ","s","p","e","c","i","e","s">>
S_DORE_ == <<"D","O","R","E","_">>

\* ------------------------------------------------------------------------
\* Numbers: whole degrees; <<n>> is the number n, <<>> is NaN
\* ------------------------------------------------------------------------
NaN == <<>>
Num(n) == <<n>>
NotNaN(x) == x # NaN

RECURSIVE DigitsVal(_)
DigitsVal(s) ==
  IF Len(s) = 0 THEN 0
  ELSE 10 * DigitsVal(SubSeq(s, 1, Len(s) - 1)) + DigitVal(s[Len(s)])

AllDigits(s) == Len(s) > 0 /\ \A i \in 1..Len(s) : IsDigitCh(s[i])

\* the decimal integer literals: an optional sign and one or more digits
IsIntText(s) ==
  IF Len(s) > 0 /\ s[1] \in {"-", "+"} THEN AllDigits(Tail(s)) ELSE AllDigits(s)

IntVal(s) ==
  IF s[1] = "-" THEN 0 - DigitsVal(Tail(s))
  ELSE IF s[1] = "+" THEN DigitsVal(Tail(s))
  ELSE DigitsVal(s)

\* pd.to_numeric(cell, errors='coerce'): a missing cell, the text 'nan' and
\* every text that is not a number become NaN
ToNumeric(x) ==
  IF x = None THEN NaN
  ELSE IF IsIntText(Strip(x)) THEN Num(IntVal(Strip(x)))
  ELSE NaN

\* float(text): ok is FALSE where float() raises ValueError; float('nan')
\* does not raise, it returns NaN
FloatOf(x) ==
  IF IsIntText(Strip(x)) THEN [ok |-> TRUE, val |-> Num(IntVal(Strip(x)))]
  ELSE IF Lower(Strip(x)) = S_nan THEN [ok |-> TRUE, val |-> NaN]
  ELSE [ok |-> FALSE, val |-> NaN]

\* ------------------------------------------------------------------------
\* MIMICRY_LOOKUP: a dict, modelled as a set of entries with distinct keys.
\* A key is <<scientific_name, subspecies>>; the value is <<male, female>>.
\* ------------------------------------------------------------------------
UnknownPair == <<S_Unknown, S_Unknown>>

HasKey(tbl, k) == \E e \in tbl : e.key = k
Get(tbl, k) == (CHOOSE e \in tbl : e.key = k).val
Keys(tbl) == {e.key : e \in tbl}

\* a table write that overwrites an existing entry (last write wins)
PutOverwrite(tbl, k, v) == {e \in tbl : e.key # k} \cup {[key |-> k, val |-> v]}

\* if key not in MIMICRY_LOOKUP: MIMICRY_LOOKUP[key] = value
PutIfAbsent(tbl, k, v) ==
  IF HasKey(tbl, k) THEN tbl ELSE tbl \cup {[key |-> k, val |-> v]}

\* normalize_mimicry(value)
normalize_mimicry(value) ==
  IF IsNa(value) \/ value \in {S_empty, S_nan, S_NAN, S_Unknown, S_UNKNOWN}
  THEN S_Unknown
  ELSE Title(Strip(Str(value)))

\* the local names of one iteration of build_mimicry_lookup's loop
BuildSciName(row) == Strip(Str(row.Genus) \o <<" ">> \o Str(row.Species))

BuildSubspecies(row) ==
  IF IsNa(row.SubSpecies) \/ Strip(Str(row.SubSpecies)) \in {S_nan, S_empty, S_None}
  THEN None
  ELSE Strip(Str(row.SubSpecies))

BuildValue(row) == <<normalize_mimicry(row.MMimicry), normalize_mimicry(row.FMimicry)>>

\* one iteration of the loop of build_mimicry_lookup: the table after `row`
BuildInsert(tbl, row) ==
  LET sci == BuildSciName(row)
      ssp == BuildSubspecies(row)
      v == BuildValue(row)
      withFull == IF Truthy(ssp)
                  THEN PutIfAbsent(tbl, <<Lower(sci), Lower(ssp)>>, v)
                  ELSE tbl
  IN PutIfAbsent(withFull, <<Lower(sci), None>>, v)

\* a lookup without the species-only fallback after a full-key miss
lookup_mimicry_noFallback(tbl, scientific_name, subspecies) ==
  IF ~Truthy(scientific_name) THEN UnknownPair
  ELSE LET sci_name_lower == Strip(Lower(scientific_name))
           key == <<sci_name_lower, Strip(Lower(Str(subspecies)))>>
           species_key == <<sci_name_lower, None>>
       IN IF Truthy(subspecies)
          THEN (IF HasKey(tbl, key) THEN Get(tbl, key) ELSE UnknownPair)
          ELSE IF HasKey(tbl, species_key) THEN Get(tbl, species_key)
          ELSE UnknownPair

\* a lookup that lower-cases its key parts and does not trim them
lookup_mimicry_noStrip(tbl, scientific_name, subspecies) ==
  IF ~Truthy(scientific_name) THEN UnknownPair
  ELSE LET sci_name_lower == Lower(scientific_name)
           key == <<sci_name_lower, Lower(Str(subspecies))>>
           species_key == <<sci_name_lower, None>>
       IN IF Truthy(subspecies) /\ HasKey(tbl, key) THEN Get(tbl, key)
          ELSE IF HasKey(tbl, species_key) THEN Get(tbl, species_key)
          ELSE UnknownPair

\* lookup_mimicry(scientific_name, subspecies) against the table tbl
lookup_mimicry(tbl, scientific_name, subspecies) ==
  IF ~Truthy(scientific_name) THEN UnknownPair
  ELSE LET sci_name_lower == Strip(Lower(scientific_name))
           key == <<sci_name_lower, Strip(Lower(Str(subspecies)))>>
           species_key == <<sci_name_lower, None>>
       IN IF Truthy(subspecies) /\ HasKey(tbl, key) THEN Get(tbl, key)
          ELSE IF HasKey(tbl, species_key) THEN Get(tbl, species_key)
          ELSE UnknownPair

\* a lookup that caches a miss of the species-only key in the table
TableAfterLookup_cacheMiss(tbl, scientific_name, subspecies) ==
  IF Truthy(scientific_name)
  THEN PutIfAbsent(tbl, <<Strip(Lower(scientific_name)), None>>, UnknownPair)
  ELSE tbl

\* lookup_mimicry only reads MIMICRY_LOOKUP: the table a call leaves behind
TableAfterLookup(tbl, scientific_name, subspecies) == tbl

\* ------------------------------------------------------------------------
\* Substrings and the regular expressions of the name cleaners
\* ------------------------------------------------------------------------
StartsWith(s, pre) == Len(s) >= Len(pre) /\ SubSeq(s, 1, Len(pre)) = pre

OccursAt(s, sub, i) == i + Len(sub) - 1 <= Len(s) /\ SubSeq(s, i, i + Len(sub) - 1) = sub

Contains(s, sub) == \E i \in 1..(Len(s) + 1) : OccursAt(s, sub, i)

\* a character class of letters and whitespace only
InCitationClass_lettersOnly(c) == IsAlphaCh(c) \/ IsSpaceCh(c)

\* the character class [a-zA-Z&\s\.\-]
InCitationClass(c) == IsAlphaCh(c) \/ IsSpaceCh(c) \/ c \in {"&", ".", "-"}

\* the first index >= i of s that holds no whitespace (Len(s)+1 when none)
SkipWs(s, i) ==
  CHOOSE k \in i..(Len(s) + 1) :
    /\ \A j \in i..(k - 1) : IsSpaceCh(s[j])
    /\ (k = Len(s) + 1 \/ ~IsSpaceCh(s[k]))

SkipCitationClass(s, i) ==
  CHOOSE k \in i..(Len(s) + 1) :
    /\ \A j \in i..(k - 1) : InCitationClass(s[j])
    /\ (k = Len(s) + 1 \/ ~InCitationClass(s[k]))

SkipLetters(s, i) ==
  CHOOSE k \in i..(Len(s) + 1) :
    /\ \A j \in i..(k - 1) : IsAlphaCh(s[j])
    /\ (k = Len(s) + 1 \/ ~IsAlphaCh(s[k]))

SkipDigits(s, i) ==
  CHOOSE k \in i..(Len(s) + 1) :
    /\ \A j \in i..(k - 1) : IsDigitCh(s[j])
    /\ (k = Len(s) + 1 \/ ~IsDigitCh(s[k]))

\* \d{4} at index i
Digits4At(s, i) == i + 3 <= Len(s) /\ \A j \in i..(i + 3) : IsDigitCh(s[j])

\* \s*\([A-Z][a-zA-Z&\s\.\-]+,?\s*\d{4}\) matched from index p: the index of
\* the closing parenthesis, 0 when there is no match at p
MatchParenCitationAt(s, p) ==
  LET q == SkipWs(s, p)
  IN IF q + 1 <= Len(s) /\ s[q] = "(" /\ IsUpperCh(s[q + 1])
     THEN LET r == SkipCitationClass(s, q + 2)
              c == IF r <= Len(s) /\ s[r] = "," THEN r + 1 ELSE r
              d == SkipWs(s, c)
          IN IF r > q + 2 /\ Digits4At(s, d) /\ d + 4 <= Len(s) /\ s[d + 4] = ")"
             THEN d + 4 ELSE 0
     ELSE 0

\* re.sub of the parenthesized citation by '': every leftmost match is dropped
RECURSIVE SubParenCitationFrom(_, _)
SubParenCitationFrom(s, p) ==
  IF p > Len(s) THEN <<>>
  ELSE LET e == MatchParenCitationAt(s, p)
       IN IF e > 0 THEN SubParenCitationFrom(s, e + 1)
          ELSE <<s[p]>> \o SubParenCitationFrom(s, p + 1)

SubParenCitation(s) == SubParenCitationFrom(s, 1)

\* \s+[A-Z][a-zA-Z&\s\.\-]+,\s*\d{4}$ matched from index p
MatchCommaCitationAt(s, p) ==
  /\ p <= Len(s) /\ IsSpaceCh(s[p])
  /\ LET q == SkipWs(s, p)
     IN /\ q <= Len(s) /\ IsUpperCh(s[q])
        /\ LET r == SkipCitationClass(s, q + 1)
           IN /\ r > q + 1
              /\ r <= Len(s) /\ s[r] = ","
              /\ LET d == SkipWs(s, r + 1)
                 IN Digits4At(s, d) /\ d + 3 = Len(s)

\* \s+[A-Z][a-zA-Z]+\s+\d{4}$ matched from index p
MatchBareCitationAt(s, p) ==
  /\ p <= Len(s) /\ IsSpaceCh(s[p])
  /\ LET q == SkipWs(s, p)
     IN /\ q <= Len(s) /\ IsUpperCh(s[q])
        /\ LET r == SkipLetters(s, q + 1)
           IN /\ r > q + 1
              /\ r <= Len(s) /\ IsSpaceCh(s[r])
              /\ LET d == SkipWs(s, r)
                 IN Digits4At(s, d) /\ d + 3 = Len(s)

\* re.sub of a pattern anchored at the end: the leftmost match is cut off
SubCommaCitation(s) ==
  IF \E p \in 1..Len(s) : MatchCommaCitationAt(s, p)
  THEN LET p == CHOOSE i \in 1..Len(s) :
                  /\ MatchCommaCitationAt(s, i)
                  /\ \A j \in 1..(i - 1) : ~MatchCommaCitationAt(s, j)
       IN SubSeq(s, 1, p - 1)
  ELSE s

SubBareCitation(s) ==
  IF \E p \in 1..Len(s) : MatchBareCitationAt(s, p)
  THEN LET p == CHOOSE i \in 1..Len(s) :
                  /\ MatchBareCitationAt(s, i)
                  /\ \A j \in 1..(i - 1) : ~MatchBareCitationAt(s, j)
       IN SubSeq(s, 1, p - 1)
  ELSE s

S_BOLD == <<"B","O","L","D",":">>

\* a specimen-code test that asks for three uppercase letters, not two
IsSpecimenCode_threeLetters(name) ==
  LET k == CHOOSE i \in 1..(Len(name) + 1) :
             /\ \A j \in 1..(i - 1) : IsUpperCh(name[j])
             /\ (i = Len(name) + 1 \/ ~IsUpperCh(name[i]))
  IN k >= 4 /\ k <= Len(name) /\ IsDigitCh(name[k])

\* re.match(r'^[A-Z]{2,}\d+', name)
IsSpecimenCode(name) ==
  LET k == CHOOSE i \in 1..(Len(name) + 1) :
             /\ \A j \in 1..(i - 1) : IsUpperCh(name[j])
             /\ (i = Len(name) + 1 \/ ~IsUpperCh(name[i]))
  IN k >= 3 /\ k <= Len(name) /\ IsDigitCh(name[k])

\* the checks on the parts without the test of the second part
NameOfParts_noEpithetCheck(parts) ==
  IF Len(parts) < 2 THEN None
  ELSE IF ~IsUpperCh(parts[1][1]) THEN None
  ELSE JoinSp(parts)

\* clean_scientific_name: the checks on the parts of the name without
\* citations
NameOfParts(parts) ==
  IF Len(parts) < 2 THEN None
  ELSE IF ~(IsUpperCh(parts[1][1]) /\ IsLowerCh(parts[2][1])) THEN None
  ELSE JoinSp(parts)

\* clean_scientific_name: the steps after name = str(name).strip()
CleanStripped(stripped) ==
  IF StartsWith(stripped, S_BOLD) \/ IsSpecimenCode(stripped) THEN None
  ELSE NameOfParts(Split(SubBareCitation(SubCommaCitation(SubParenCitation(stripped)))))

\* gbif_download_api.clean_scientific_name(name)
clean_scientific_name(name) ==
  IF ~Truthy(name) THEN None ELSE CleanStripped(Strip(name))

\* return name if name else None
NonEmptyOrNone(name) == IF name = <<>> THEN None ELSE name

\* process_data.load_gbif_bulk_download.clean_species_name(name)
clean_species_name(name) ==
  IF ~Truthy(name) THEN None
  ELSE NonEmptyOrNone(JoinSp(Split(SubCommaCitation(SubParenCitation(Strip(Str(name)))))))

\* ------------------------------------------------------------------------
\* gbif_download_api: per-row helpers of process_occurrence_file
\* ------------------------------------------------------------------------
INATURALIST_DATASET_KEY ==
  <<"5","0","c","9","5","0","9","d","-","2","2","c","7","-","4","a","2","2","-","a","4","7","d","-","8","c","4","8","4","2","5","e","f","4","a","7">>

S_inaturalist == <<"i","n","a","t","u","r","a","l","i","s","t">>
S_inaturalist_org == <<"i","n","a","t","u","r","a","l","i","s","t",".","o","r","g">>
S_inat_obs_path == <<"i","n","a","t","u","r","a","l","i","s","t",".","o","r","g","/","o","b","s","e","r","v","a","t","i","o","n","s","/">>
S_inat_obs_url == <<"h","t","t","p","s",":","/","/","w","w","w",".","i","n","a","t","u","r","a","l","i","s","t",".","o","r","g","/","o","b","s","e","r","v","a","t","i","o","n","s","/">>
S_http == <<"h","t","t","p">>
S_gbif_occ_url == <<"h","t","t","p","s",":","/","/","w","w","w",".","g","b","i","f",".","o","r","g","/","o","c","c","u","r","r","e","n","c","e","/">>
S_na == <<"n","a">>
S_none == <<"n","o","n","e">>

\* record.get(field, '') or ''
OrEmpty(x) == IF Truthy(x) THEN x ELSE <<>>

\* an iNaturalist test on the dataset key alone
is_inaturalist_datasetOnly(record) ==
  OrEmpty(record.datasetKey) = INATURALIST_DATASET_KEY

\* the iNaturalist test shared by get_source and get_observation_url
is_inaturalist(record) ==
  \/ OrEmpty(record.datasetKey) = INATURALIST_DATASET_KEY
  \/ Lower(OrEmpty(record.institutionCode)) = S_inaturalist
  \/ Contains(Lower(OrEmpty(record.occurrenceID)), S_inaturalist_org)

\* get_source(record)
get_source(record) == IF is_inaturalist(record) THEN "iNaturalist" ELSE "GBIF"

\* re.search(r'inaturalist\.org/observations/(\d+)', s): the digits of the
\* leftmost match, <<>> when there is none
ObsIdIn(s) ==
  LET hit(i) == /\ OccursAt(s, S_inat_obs_path, i)
                /\ i + Len(S_inat_obs_path) <= Len(s)
                /\ IsDigitCh(s[i + Len(S_inat_obs_path)])
  IN IF \E i \in 1..Len(s) : hit(i)
     THEN LET i == CHOOSE k \in 1..Len(s) : hit(k) /\ \A j \in 1..(k - 1) : ~hit(j)
              a == i + Len(S_inat_obs_path)
          IN SubSeq(s, a, SkipDigits(s, a) - 1)
     ELSE <<>>

\* re.search(r':(\d+)$', s): the digits, <<>> when there is no match
TrailingIdIn(s) ==
  LET hit(i) == s[i] = ":" /\ i < Len(s) /\ SkipDigits(s, i + 1) = Len(s) + 1
  IN IF \E i \in 1..Len(s) : hit(i)
     THEN SubSeq(s, (CHOOSE i \in 1..Len(s) : hit(i)) + 1, Len(s))
     ELSE <<>>

\* get_observation_url(record)
get_observation_url(record) ==
  LET gbif_id == IF record.gbifID = None THEN S_None ELSE record.gbifID
      occurrence_id == OrEmpty(record.occurrenceID)
      references == OrEmpty(record.references)
      fallback == IF StartsWith(references, S_http) THEN references
                  ELSE S_gbif_occ_url \o gbif_id
  IN IF ~is_inaturalist(record) THEN fallback
     ELSE IF StartsWith(occurrence_id, S_inat_obs_url) THEN occurrence_id
     ELSE IF ObsIdIn(occurrence_id) # <<>> THEN S_inat_obs_url \o ObsIdIn(occurrence_id)
     ELSE IF AllDigits(occurrence_id) THEN S_inat_obs_url \o occurrence_id
     ELSE IF TrailingIdIn(occurrence_id) # <<>>
          THEN S_inat_obs_url \o TrailingIdIn(occurrence_id)
     ELSE fallback

\* the priority order of get_collection_location
LocationFields == <<"locality", "verbatimLocality", "municipality", "county", "stateProvince">>

\* a test of a location value that accepts the placeholders
LocationPresent_noPlaceholders(value) ==
  /\ Truthy(value)
  /\ Strip(Str(value)) # <<>>

LocationPresent(value) ==
  /\ Truthy(value)
  /\ Strip(Str(value)) # <<>>
  /\ Lower(Strip(Str(value))) \notin {S_na, S_nan, S_none, S_empty}

\* enrich_gbif_locations.main: best_location, the first truthy value among
\* locality, verbatimLocality, stateProvince, county, municipality; absent
\* (collection_location is not set) when none is truthy
best_location(location_fields) ==
  IF Truthy(location_fields.locality) THEN location_fields.locality
  ELSE IF Truthy(location_fields.verbatimLocality) THEN location_fields.verbatimLocality
  ELSE IF Truthy(location_fields.stateProvince) THEN location_fields.stateProvince
  ELSE IF Truthy(location_fields.county) THEN location_fields.county
  ELSE IF Truthy(location_fields.municipality) THEN location_fields.municipality
  ELSE None

\* get_collection_location(record)
get_collection_location(record) ==
  IF \E i \in 1..Len(LocationFields) : LocationPresent(record[LocationFields[i]])
  THEN LET i == CHOOSE k \in 1..Len(LocationFields) :
                  /\ LocationPresent(record[LocationFields[k]])
                  /\ \A j \in 1..(k - 1) : ~LocationPresent(record[LocationFields[j]])
       IN Strip(Str(record[LocationFields[i]]))
  ELSE None

\* ------------------------------------------------------------------------
\* Source batches: the rows the three sources can hold in this model
\* ------------------------------------------------------------------------
SeqsUpTo(S, n) == UNION {[1..k -> S] : k \in 0..n}

\* rows of the reference workbook (Dore et al.)
RefRow1 ==
  [Genus |-> <<"A","e">>, Species |-> <<"e","l">>, SubSpecies |-> None,
   MMimicry |-> <<"r","e","d">>, FMimicry |-> <<"r","e","d">>,
   Latitude |-> <<"1","0">>, Longitude |-> <<"2","0">>,
   ID_obs |-> <<"1">>, Locality |-> <<"L","o">>]

RefRow2 ==
  [Genus |-> <<"A","e">>, Species |-> <<"e","l">>,
   SubSpecies |-> <<"e","x">>, MMimicry |-> <<"B","L","U","E">>,
   FMimicry |-> <<"b","l","u","e">>, Latitude |-> <<"-","9","1">>,
   Longitude |-> <<"2","0","0">>, ID_obs |-> <<"1">>,
   Locality |-> <<"N","o","n","e">>]

RefRow3 ==
  [Genus |-> <<"A","E">>, Species |-> <<"e","l">>,
   SubSpecies |-> <<"N","o","n","e">>, MMimicry |-> None,
   FMimicry |-> <<"n","a","n">>, Latitude |-> <<"2","0">>,
   Longitude |-> None, ID_obs |-> <<"2">>, Locality |-> None]

RefRow4 ==
  [Genus |-> <<"A","e">>, Species |-> <<"m","a">>,
   SubSpecies |-> <<"E","x"," ">>, MMimicry |-> <<"r","e","d">>,
   FMimicry |-> None, Latitude |-> <<"0">>, Longitude |-> <<"0">>,
   ID_obs |-> <<"3">>, Locality |-> <<" ","Q","u">>]

RefRows == {RefRow1, RefRow2, RefRow3, RefRow4}

\* rows of the Collection_data sheet, with the photo joined to the row
SangerRow1 ==
  [CAM_ID |-> <<"c","a","m","1">>,
   SPECIES |-> <<" ","A","e"," ","E","L">>,
   Subspecies_Form |-> <<"z","z">>, DECIMAL_LATITUDE |-> <<"5">>,
   DECIMAL_LONGITUDE |-> <<"6">>, Collection_location |-> <<"Q","u">>,
   Collection_date |-> None, proxy_url |-> <<"u">>,
   Tube_1_rack |-> <<"R","A","C","K","0","1">>, Tube_1_tissue |-> None]

SangerRow2 ==
  [CAM_ID |-> <<"D","O","R","E","_","1">>, SPECIES |-> None,
   Subspecies_Form |-> <<"E","X"," ">>, DECIMAL_LATITUDE |-> <<"-","5">>,
   DECIMAL_LONGITUDE |-> <<"6">>, Collection_location |-> None,
   Collection_date |-> <<"2","0","2","0">>, proxy_url |-> None,
   Tube_1_rack |-> None, Tube_1_tissue |-> <<"T","1">>]

SangerRow3 ==
  [CAM_ID |-> <<"7">>, SPECIES |-> <<"A","e"," ","e","l">>,
   Subspecies_Form |-> <<"e","x">>, DECIMAL_LATITUDE |-> <<"9","5">>,
   DECIMAL_LONGITUDE |-> <<"1","9","0">>,
   Collection_location |-> <<"N","A">>, Collection_date |-> None,
   proxy_url |-> None,
   Tube_1_rack |-> <<"N","o","t"," ","i","n"," ","T","O","L">>, Tube_1_tissue |-> <<"N","O","T","_","C","O","L","L","E","C","T","E","D">>]

SangerRow4 ==
  [CAM_ID |-> <<" ","n","a"," ">>, SPECIES |-> <<"A","e"," ","m","a">>,
   Subspecies_Form |-> None, DECIMAL_LATITUDE |-> <<"1">>,
   DECIMAL_LONGITUDE |-> <<"2">>, Collection_location |-> <<"L","o">>,
   Collection_date |-> None, proxy_url |-> None,
   Tube_1_rack |-> <<"A","B"," "," "," "," ">>, Tube_1_tissue |-> None]

SangerRow5 ==
  [CAM_ID |-> <<"c","a","m","2">>, SPECIES |-> <<"A","e"," ","e","l">>,
   Subspecies_Form |-> None, DECIMAL_LATITUDE |-> <<"a","b","c">>,
   DECIMAL_LONGITUDE |-> <<"2">>, Collection_location |-> <<"L","o">>,
   Collection_date |-> None, proxy_url |-> None,
   Tube_1_rack |-> <<>>, Tube_1_tissue |-> <<>>]

SangerRows == {SangerRow1, SangerRow2, SangerRow3, SangerRow4, SangerRow5}

\* rows of occurrence.txt of a GBIF download
GbifRow1 ==
  [gbifID |-> <<"7">>, decimalLatitude |-> <<"1">>,
   decimalLongitude |-> <<"2">>, genus |-> <<"A","e">>,
   specificEpithet |-> <<"e","l">>, infraspecificEpithet |-> <<"e","x">>,
   species |-> <<"A","e"," ","e","l">>, scientificName |-> <<>>,
   locality |-> <<>>, verbatimLocality |-> <<"n","a","n">>,
   municipality |-> <<>>, county |-> <<"L","o">>,
   stateProvince |-> <<"Z","z">>, eventDate |-> <<>>,
   occurrenceID |-> <<>>, references |-> <<>>, institutionCode |-> <<>>,
   datasetKey |-> <<>>,
   basisOfRecord |-> <<"H","U","M","A","N","_","O","B","S","E","R","V","A","T","I","O","N">>]

GbifRow2 ==
  [gbifID |-> <<"8">>, decimalLatitude |-> <<"n","a","n">>,
   decimalLongitude |-> <<"1","8","1">>, genus |-> <<>>, specificEpithet |-> <<>>,
   infraspecificEpithet |-> <<"A","C","C","E","P","T","E","D">>,
   species |-> <<>>,
   scientificName |-> <<"A","e"," ","e","l"," ","(","X","y",","," ","1","8","6","6",")">>,
   locality |-> <<"Q","u">>, verbatimLocality |-> <<>>,
   municipality |-> <<>>, county |-> <<>>, stateProvince |-> <<>>,
   eventDate |-> <<"2","0","2","0">>, occurrenceID |-> <<"1","2">>,
   references |-> <<>>,
   institutionCode |-> <<"i","N","a","t","u","r","a","l","i","s","t">>,
   datasetKey |-> <<>>,
   basisOfRecord |-> <<"P","R","E","S","E","R","V","E","D","_","S","P","E","C","I","M","E","N">>]

GbifRow3 ==
  [gbifID |-> <<"9">>, decimalLatitude |-> <<>>,
   decimalLongitude |-> <<"3">>, genus |-> <<"A","e">>,
   specificEpithet |-> <<"e","l">>, infraspecificEpithet |-> <<>>,
   species |-> <<>>, scientificName |-> <<>>, locality |-> <<>>,
   verbatimLocality |-> <<>>, municipality |-> <<>>, county |-> <<>>,
   stateProvince |-> <<>>, eventDate |-> <<>>, occurrenceID |-> <<>>,
   references |-> <<"h","t","t","p">>, institutionCode |-> <<>>,
   datasetKey |-> <<>>,
   basisOfRecord |-> <<>>]

GbifRow4 ==
  [gbifID |-> <<"7">>, decimalLatitude |-> <<"9","1">>,
   decimalLongitude |-> <<"0">>, genus |-> <<>>, specificEpithet |-> <<>>,
   infraspecificEpithet |-> <<>>,
   species |-> <<"B","O","L","D",":","A","A","1">>,
   scientificName |-> <<>>, locality |-> <<>>, verbatimLocality |-> <<>>,
   municipality |-> <<>>, county |-> <<>>, stateProvince |-> <<>>,
   eventDate |-> <<>>, occurrenceID |-> <<>>, references |-> <<>>,
   institutionCode |-> <<>>, datasetKey |-> <<>>,
   basisOfRecord |-> <<"L","I","V","I","N","G","_","S","P","E","C","I","M","E","N">>]

GbifRow5 ==
  [gbifID |-> <<"D","O","R","E","_","1">>, decimalLatitude |-> <<"x">>,
   decimalLongitude |-> <<"0">>, genus |-> <<"A","e">>,
   specificEpithet |-> <<"m","a">>, infraspecificEpithet |-> <<>>,
   species |-> <<>>, scientificName |-> <<>>, locality |-> <<>>,
   verbatimLocality |-> <<>>, municipality |-> <<>>, county |-> <<>>,
   stateProvince |-> <<>>, eventDate |-> <<>>, occurrenceID |-> <<>>,
   references |-> <<>>, institutionCode |-> <<>>, datasetKey |-> <<>>,
   basisOfRecord |-> <<"F","O","S","S","I","L","_","S","P","E","C","I","M","E","N">>]

GbifRows == {GbifRow1, GbifRow2, GbifRow3, GbifRow4, GbifRow5}

\* rows of multimedia.txt
MediaRows ==
  {[gbifID |-> <<"7">>, type |-> <<"S","t","i","l","l","I","m","a","g","e">>, identifier |-> <<"a">>],
   [gbifID |-> <<"7">>, type |-> <<"S","t","i","l","l","I","m","a","g","e">>, identifier |-> <<"b">>],
   [gbifID |-> <<"7">>, type |-> <<"S","o","u","n","d">>, identifier |-> <<"c">>],
   [gbifID |-> <<"7">>, type |-> <<"S","t","i","l","l","I","m","a","g","e">>, identifier |-> <<>>],
   [gbifID |-> <<"8">>, type |-> <<"h","t","t","p",":","/","/","p","u","r","l",".","o","r","g","/","d","c","/","d","c","m","i","t","y","p","e","/","S","t","i","l","l","I","m","a","g","e">>, identifier |-> <<"a">>],
   [gbifID |-> <<"8">>, type |-> <<"M","o","v","i","n","g","I","m","a","g","e">>, identifier |-> <<"d">>],
   [gbifID |-> <<"8">>, type |-> <<"s","t","i","l","l","i","m","a","g","e">>, identifier |-> <<"f">>],
   [gbifID |-> <<>>, type |-> <<"S","t","i","l","l","I","m","a","g","e">>, identifier |-> <<"e">>],
   [gbifID |-> <<"7">>, type |-> <<>>, identifier |-> <<"a">>],
   [gbifID |-> <<"8">>, type |-> <<"S","t","i","l","l","I","m","a","g","e">>, identifier |-> <<"g">>]}

\* the rows of multimedia.txt, at most
MaxMedia == 3

\* a loop body in which a later image replaces the stored one
MediaInsert_lastWins(lookup, row) ==
  IF Truthy(row.gbifID) /\ Contains(row.type, <<"S","t","i","l","l","I","m","a","g","e">>) /\ Truthy(row.identifier)
  THEN PutOverwrite(lookup, row.gbifID, row.identifier)
  ELSE lookup

\* load_multimedia_lookup: one iteration of the loop over the reader
MediaInsert(lookup, row) ==
  IF Truthy(row.gbifID) /\ Contains(row.type, <<"S","t","i","l","l","I","m","a","g","e">>) /\ Truthy(row.identifier)
  THEN PutIfAbsent(lookup, row.gbifID, row.identifier)
  ELSE lookup

\* load_multimedia_lookup: the lookup after the first n rows
RECURSIVE MediaLookupAfter(_, _)
MediaLookupAfter(rows, n) ==
  IF n = 0 THEN {} ELSE MediaInsert(MediaLookupAfter(rows, n - 1), rows[n])

\* load_multimedia_lookup(extract_dir) on a multimedia.txt with these rows
load_multimedia_lookup(rows) == MediaLookupAfter(rows, Len(rows))

\* the multimedia lookup of the download: gbifID -> image URL
MultimediaLookup == {[key |-> <<"7">>, val |-> <<"i","m","g">>]}

\* ------------------------------------------------------------------------
\* process_data: canonical records of the three loaders
\* ------------------------------------------------------------------------
\* lambda x: str(x).strip() if pd.notna(x) and str(x).strip() not in
\* placeholders else None
CleanOptional(x, placeholders) ==
  IF ~IsNa(x) /\ Strip(Str(x)) \notin placeholders THEN Strip(Str(x)) ELSE None

\* a dropna that looks at lat only
HasCoordinates_latOnly(rec) == NotNaN(rec.lat)

\* result.dropna(subset=['lat', 'lng'])
HasCoordinates(rec) == NotNaN(rec.lat) /\ NotNaN(rec.lng)

\* a record whose id is the ID_obs of the row without the prefix
LocalRecord_noPrefix(row) ==
  [id |-> Str(row.ID_obs),
   scientific_name |-> Str(row.Genus) \o <<" ">> \o Str(row.Species),
   subspecies |-> CleanOptional(row.SubSpecies, {S_nan, S_empty}),
   lat |-> ToNumeric(row.Latitude),
   lng |-> ToNumeric(row.Longitude),
   mimicry_ring |-> normalize_mimicry(row.MMimicry),
   sequencing_status |-> <<"P","u","b","l","i","s","h","e","d">>,
   source |-> "Dore et al. (2025)",
   image_url |-> None,
   collection_location |-> CleanOptional(row.Locality, {S_nan, S_empty}),
   observation_date |-> None]

\* load_local_data: the record of one row of the workbook
LocalRecord(row) ==
  [id |-> S_DORE_ \o Str(row.ID_obs),
   scientific_name |-> Str(row.Genus) \o <<" ">> \o Str(row.Species),
   subspecies |-> CleanOptional(row.SubSpecies, {S_nan, S_empty}),
   lat |-> ToNumeric(row.Latitude),
   lng |-> ToNumeric(row.Longitude),
   mimicry_ring |-> normalize_mimicry(row.MMimicry),
   sequencing_status |-> <<"P","u","b","l","i","s","h","e","d">>,
   source |-> "Dore et al. (2025)",
   image_url |-> None,
   collection_location |-> CleanOptional(row.Locality, {S_nan, S_empty}),
   observation_date |-> None]

\* the records of the rows of the model, computed once
LocalRecordOf == [row \in RefRows |-> LocalRecord(row)]

\* load_local_data: the frame it returns for the rows of the workbook
LocalResult(rows) ==
  SelectSeq([i \in 1..Len(rows) |-> LocalRecordOf[rows[i]]], HasCoordinates)

\* a loop that stops one row early
BuildDone_early(idx, rows) == idx >= Len(rows) - 1

\* for _, row in dore_df.iterrows(): the loop has run over every row
BuildDone(idx, rows) == idx >= Len(rows)

\* clean_id(series)
clean_id(x) ==
  LET u == Strip(Upper(Str(x)))
  IN IF u \in {S_NAN, S_NONE, S_NA} THEN <<>> ELSE u

\* the arguments of the calls of lookup_mimicry a loader makes, row by row,
\* the results of the calls and the table the calls leave behind
RECURSIVE ResultsOfCalls(_, _)
ResultsOfCalls(tbl, args) ==
  IF Len(args) = 0 THEN <<>>
  ELSE <<lookup_mimicry(tbl, args[1][1], args[1][2])>>
         \o ResultsOfCalls(TableAfterLookup(tbl, args[1][1], args[1][2]), Tail(args))

RECURSIVE TableAfterCalls(_, _)
TableAfterCalls(tbl, args) ==
  IF Len(args) = 0 THEN tbl
  ELSE TableAfterCalls(TableAfterLookup(tbl, args[1][1], args[1][2]), Tail(args))

CallLog(tbl, args) ==
  LET res == ResultsOfCalls(tbl, args)
  IN [i \in 1..Len(args) |->
        [scientific_name |-> args[i][1], subspecies |-> args[i][2], result |-> res[i]]]

\* a Python None held by a row, which str() turns into 'None'
PyNone == <<"<PyNone>">>

\* str(row.get(key, '')): '' for a missing key, 'nan' for NaN
RowStr(row, key) ==
  IF key \notin DOMAIN row THEN <<>>
  ELSE IF row[key] = PyNone THEN S_None
  ELSE Str(row[key])

\* 'Not in TOL' not in rack_1 and len(rack_1) > 5
IsSequenced(rack_1) ==
  ~Contains(rack_1, <<"N","o","t"," ","i","n"," ","T","O","L">>) /\ Len(rack_1) > 5

\* 'NOT_COLLECTED' not in tissue_1 and tissue_1 not in ['nan', '']
HasTissue(tissue_1) ==
  ~Contains(tissue_1, <<"N","O","T","_","C","O","L","L","E","C","T","E","D">>) /\ tissue_1 \notin {S_nan, S_empty}

\* determine_sequencing_status(row)
determine_sequencing_status(row) ==
  IF IsSequenced(RowStr(row, "Tube_1_rack")) THEN <<"S","e","q","u","e","n","c","e","d">>
  ELSE IF HasTissue(RowStr(row, "Tube_1_tissue")) THEN <<"T","i","s","s","u","e"," ","A","v","a","i","l","a","b","l","e">>
  ELSE <<"P","r","e","s","e","r","v","e","d"," ","S","p","e","c","i","m","e","n">>

\* load_sanger_data: the columns of one row before the mimicry lookup
SangerName(row) == IF IsNa(row.SPECIES) THEN S_UnknownSpecies ELSE row.SPECIES

SangerSubspecies(row) == CleanOptional(row.Subspecies_Form, {S_nan, S_empty, S_NA})

\* load_sanger_data: the columns of one row, mimicry_ring not yet filled
SangerColumns(row) ==
  [id |-> clean_id(row.CAM_ID),
   scientific_name |-> SangerName(row),
   subspecies |-> SangerSubspecies(row),
   lat |-> ToNumeric(row.DECIMAL_LATITUDE),
   lng |-> ToNumeric(row.DECIMAL_LONGITUDE),
   mimicry_ring |-> None,
   sequencing_status |-> determine_sequencing_status(row),
   source |-> "Sanger Institute",
   image_url |-> row.proxy_url,
   collection_location |-> CleanOptional(row.Collection_location, {S_nan, S_empty, S_NA}),
   observation_date |-> CleanOptional(row.Collection_date, {S_nan, S_empty, S_NA})]

\* the columns of the rows of the model, computed once
SangerColumnsOf == [row \in SangerRows |-> SangerColumns(row)]

\* get_mimicry_for_row: the arguments of the lookup of a row
ArgsOf(columns) == <<columns.scientific_name, columns.subspecies>>

\* get_mimicry_for_row: the arguments of the lookup of each row
SangerArgs(rows) == [i \in 1..Len(rows) |-> ArgsOf(SangerColumnsOf[rows[i]])]

\* load_sanger_data: the record of one row, given the result of its lookup
SangerRecord(row, mimicry) ==
  [SangerColumnsOf[row] EXCEPT !.mimicry_ring = mimicry[1]]

SangerKeep(rec) == HasCoordinates(rec) /\ rec.id # <<>>

\* the frame of the rows given the results of their lookups
SangerFrame(rows, res) ==
  SelectSeq([i \in 1..Len(rows) |-> SangerRecord(rows[i], res[i])], SangerKeep)

\* load_sanger_data: the frame it returns
SangerResult(tbl, rows) == SangerFrame(rows, ResultsOfCalls(tbl, SangerArgs(rows)))

\* ------------------------------------------------------------------------
\* gbif_download_api.process_occurrence_file
\* ------------------------------------------------------------------------
S_status_download == {<<"A","C","C","E","P","T","E","D">>, <<"S","Y","N","O","N","Y","M">>,
                      <<"D","O","U","B","T","F","U","L">>, S_UNKNOWN, S_NA, S_NAN, S_empty}

S_status_load == {<<"A","C","C","E","P","T","E","D">>, <<"S","Y","N","O","N","Y","M">>,
                  <<"D","O","U","B","T","F","U","L">>, S_UNKNOWN, S_NA, S_NONE, S_empty}

\* the coordinates of a row are present and float() accepts them
OccurrenceHasCoordinates(row) ==
  /\ Truthy(row.decimalLatitude) /\ Truthy(row.decimalLongitude)
  /\ FloatOf(row.decimalLatitude).ok /\ FloatOf(row.decimalLongitude).ok

\* row.get('species') or row.get('scientificName')
OccurrenceFullName(row) == IF Truthy(row.species) THEN row.species ELSE row.scientificName

\* a scientific name that is always the cleaned full name
OccurrenceName_alwaysClean(row) == clean_scientific_name(OccurrenceFullName(row))

\* the scientific name process_occurrence_file builds for a row
OccurrenceName(row) ==
  IF Truthy(row.genus) /\ Truthy(row.specificEpithet)
  THEN row.genus \o <<" ">> \o row.specificEpithet
  ELSE clean_scientific_name(OccurrenceFullName(row))

\* the subspecies process_occurrence_file keeps for a row
OccurrenceSubspecies(row) ==
  IF ~Truthy(row.infraspecificEpithet) THEN None
  ELSE IF Upper(Strip(row.infraspecificEpithet)) \in S_status_download THEN None
  ELSE Strip(row.infraspecificEpithet)

\* genus as process_occurrence_file leaves it before building the record
OccurrenceGenus(row) ==
  IF Truthy(row.genus) /\ Truthy(row.specificEpithet) THEN row.genus
  ELSE IF Truthy(OccurrenceName(row)) THEN Split(OccurrenceName(row))[1]
  ELSE OrEmpty(row.genus)

\* species_epithet as process_occurrence_file leaves it
OccurrenceEpithet(row) ==
  IF Truthy(row.genus) /\ Truthy(row.specificEpithet) THEN row.specificEpithet
  ELSE IF Truthy(OccurrenceName(row)) THEN Split(OccurrenceName(row))[2]
  ELSE OrEmpty(row.specificEpithet)

OccurrenceKept(row) == OccurrenceHasCoordinates(row) /\ Truthy(OccurrenceName(row))

\* the record process_occurrence_file appends for a row it keeps
OccurrenceRecord(row, multimedia_lookup) ==
  [id |-> Str(row.gbifID),
   scientific_name |-> OccurrenceName(row),
   genus |-> IF Truthy(OccurrenceGenus(row)) THEN OccurrenceGenus(row) ELSE S_Unknown,
   species |-> IF Truthy(OccurrenceEpithet(row)) THEN OccurrenceEpithet(row)
               ELSE <<"s","p",".">>,
   subspecies |-> OccurrenceSubspecies(row),
   lat |-> FloatOf(row.decimalLatitude).val,
   lng |-> FloatOf(row.decimalLongitude).val,
   collection_location |-> get_collection_location(row),
   collection_date |-> row.eventDate,
   source |-> get_source(row),
   observation_url |-> get_observation_url(row),
   basis_of_record |-> row.basisOfRecord,
   image_url |-> IF HasKey(multimedia_lookup, Str(row.gbifID))
                 THEN Get(multimedia_lookup, Str(row.gbifID)) ELSE None,
   mimicry_ring |-> S_Unknown]

\* rows of occurrence.txt a caller hands to process_occurrence_file on its
\* own: the taxonomy columns of a row with coordinates take these values
OccurrenceInputs ==
  {[GbifRow1 EXCEPT !.genus = g, !.specificEpithet = e,
                    !.infraspecificEpithet = i, !.species = s, !.scientificName = n] :
     g \in {<<>>, <<"A","e">>},
     e \in {<<>>, <<"e","l">>},
     i \in {<<>>, <<"e","x">>, <<" ","E","x"," ">>, <<"a","c","c","e","p","t","e","d">>, <<"S","y","n","o","n","y","m">>, <<"D","O","U","B","T","F","U","L">>, <<"u","n","k","n","o","w","n">>, <<"n","a">>, <<"n","a","n">>, <<"n","o","n","e">>, <<" ">>},
     s \in {<<>>, <<"A","e"," ","m","a">>, <<"A","e"," ","m","a"," ","z","z">>, <<"B","O","L","D",":","A","A","1">>},
     n \in {<<>>, <<"A","e"," ","e","l"," ","e","x"," ","(","X","y",","," ","1","8","6","6",")">>}}
  \cup {[GbifRow1 EXCEPT !.species = <<>>, !.basisOfRecord = b] :
          b \in {None, <<>>,
                 <<"H","U","M","A","N","_","O","B","S","E","R","V","A","T","I","O","N">>,
                 <<"M","A","C","H","I","N","E","_","O","B","S","E","R","V","A","T","I","O","N">>,
                 <<"P","R","E","S","E","R","V","E","D","_","S","P","E","C","I","M","E","N">>,
                 <<"M","A","T","E","R","I","A","L","_","S","A","M","P","L","E">>,
                 <<"L","I","V","I","N","G","_","S","P","E","C","I","M","E","N">>,
                 <<"O","C","C","U","R","R","E","N","C","E">>,
                 <<"F","O","S","S","I","L","_","S","P","E","C","I","M","E","N">>,
                 <<"h","u","m","a","n","_","o","b","s","e","r","v","a","t","i","o","n">>}}

\* the verdicts and records of the rows of the model, computed once
OccurrenceKeptOf == [row \in GbifRows \cup OccurrenceInputs |-> OccurrenceKept(row)]

OccurrenceRecordOf ==
  [row \in GbifRows \cup OccurrenceInputs |-> OccurrenceRecord(row, MultimediaLookup)]

OccurrenceIsKept(row) == OccurrenceKeptOf[row]

\* process_occurrence_file: the records written to gbif_occurrences.json
process_occurrence_file(rows) ==
  LET kept == SelectSeq(rows, OccurrenceIsKept)
  IN [i \in 1..Len(kept) |-> OccurrenceRecordOf[kept[i]]]

\* ------------------------------------------------------------------------
\* process_data.load_gbif_bulk_download
\* ------------------------------------------------------------------------
\* status_map, and the NaN Series.map gives for a code that is no key
status_map(basis) ==
  IF basis \in {<<"H","U","M","A","N","_","O","B","S","E","R","V","A","T","I","O","N">>,
                <<"M","A","C","H","I","N","E","_","O","B","S","E","R","V","A","T","I","O","N">>}
  THEN <<"O","b","s","e","r","v","a","t","i","o","n">>
  ELSE IF basis \in {<<"P","R","E","S","E","R","V","E","D","_","S","P","E","C","I","M","E","N">>,
                     <<"M","A","T","E","R","I","A","L","_","S","A","M","P","L","E">>}
  THEN <<"M","u","s","e","u","m"," ","S","p","e","c","i","m","e","n">>
  ELSE IF basis = <<"L","I","V","I","N","G","_","S","P","E","C","I","M","E","N">>
  THEN <<"L","i","v","i","n","g"," ","S","p","e","c","i","m","e","n">>
  ELSE IF basis = <<"O","C","C","U","R","R","E","N","C","E">>
  THEN <<"G","B","I","F"," ","R","e","c","o","r","d">>
  ELSE None

\* a clean_subspecies that compares without upper()
clean_subspecies_caseSensitive(ssp) ==
  IF ~Truthy(ssp) THEN None
  ELSE IF Strip(Str(ssp)) \in S_status_load THEN None
  ELSE Strip(Str(ssp))

\* a status table read with no default for a code it does not hold
GbifStatus_noDefault(rec) ==
  IF "basis_of_record" \in DOMAIN rec THEN status_map(rec.basis_of_record)
  ELSE <<"G","B","I","F"," ","R","e","c","o","r","d">>

\* df['basis_of_record'].map(status_map).fillna('GBIF Record'), or
\* 'GBIF Record' when the file has no basis_of_record column
GbifStatus(rec) ==
  IF "basis_of_record" \in DOMAIN rec
  THEN IF IsNa(status_map(rec.basis_of_record)) THEN <<"G","B","I","F"," ","R","e","c","o","r","d">>
       ELSE status_map(rec.basis_of_record)
  ELSE <<"G","B","I","F"," ","R","e","c","o","r","d">>

\* the records of a file written without the basis_of_record column, as
\* gbif_download.py writes gbif_occurrences.json
WithoutBasis(records) ==
  [i \in 1..Len(records) |->
     [f \in (DOMAIN records[i]) \ {"basis_of_record"} |-> records[i][f]]]

\* clean_subspecies(ssp)
clean_subspecies(ssp) ==
  IF ~Truthy(ssp) THEN None
  ELSE IF Upper(Strip(Str(ssp))) \in S_status_load THEN None
  ELSE Strip(Str(ssp))

\* the columns of one record of the file, mimicry_ring as the file has it
GbifColumns(rec) ==
  [id |-> rec.id,
   mimicry_ring |-> rec.mimicry_ring,
   sequencing_status |-> GbifStatus(rec),
   scientific_name |-> clean_species_name(rec.scientific_name),
   subspecies |-> clean_subspecies(rec.subspecies),
   lat |-> rec.lat,
   lng |-> rec.lng,
   source |-> rec.source,
   image_url |-> rec.image_url,
   collection_location |-> CleanOptional(rec.collection_location, {S_nan, S_empty}),
   observation_date |-> CleanOptional(rec.collection_date, {S_nan, S_empty}),
   observation_url |-> CleanOptional(rec.observation_url, {S_nan, S_empty})]

\* the columns of the records of the rows of the model, computed once
GbifColumnsOf ==
  [rec \in {OccurrenceRecordOf[row] : row \in GbifRows \cup OccurrenceInputs}
         \cup {WithoutBasis(<<OccurrenceRecordOf[row]>>)[1] : row \in OccurrenceInputs} |->
     GbifColumns(rec)]

GbifNameValid(rec) == GbifColumnsOf[rec].scientific_name # None

\* df = df[df['scientific_name'].notna()] after clean_species_name
GbifNamed(records) == SelectSeq(records, GbifNameValid)

\* get_mimicry_for_row: the arguments of the lookup of each row
GbifArgs(named) == [i \in 1..Len(named) |-> ArgsOf(GbifColumnsOf[named[i]])]

\* a frame row that keeps the mimicry_ring of the file ('Unknown')
GbifRecord_noLookup(rec, mimicry) == GbifColumnsOf[rec]

\* the row of the returned frame for a record of the file
GbifRecord(rec, mimicry) == [GbifColumnsOf[rec] EXCEPT !.mimicry_ring = mimicry[1]]

\* the frame of the named records given the results of their lookups
GbifFrame(named, res) == [i \in 1..Len(named) |-> GbifRecord(named[i], res[i])]

\* the lookups and the frame of the named records
GbifLookedUp(tbl, named) == GbifFrame(named, ResultsOfCalls(tbl, GbifArgs(named)))

\* load_gbif_bulk_download: the frame it returns for the records of the file
GbifResult(tbl, records) == GbifLookedUp(tbl, GbifNamed(records))

\* ------------------------------------------------------------------------
\* process_data.main: merging and final cleaning
\* ------------------------------------------------------------------------
\* pd.concat gives a frame the union of the columns: a record of a frame
\* without the observation_url column holds a missing value there
AllColumns(rec) ==
  IF "observation_url" \in DOMAIN rec THEN rec
  ELSE [f \in (DOMAIN rec) \cup {"observation_url"} |->
          IF f = "observation_url" THEN None ELSE rec[f]]

\* a concatenation that drops the records of b whose id a already holds
Concat_dedup(a, b) ==
  LET fresh(rec) == \A i \in 1..Len(a) : a[i].id # rec.id
      kept == SelectSeq(b, fresh)
  IN [i \in 1..Len(a) |-> AllColumns(a[i])] \o [i \in 1..Len(kept) |-> AllColumns(kept[i])]

\* pd.concat(frames, ignore_index=True)
Concat(a, b) ==
  [i \in 1..Len(a) |-> AllColumns(a[i])] \o [i \in 1..Len(b) |-> AllColumns(b[i])]

\* df[col].fillna('Unknown').astype(str)
FillUnknown(x) == IF IsNa(x) THEN S_Unknown ELSE x

\* a normalization that leaves the text 'None' in place
NullNormalize_keepNone(x) == IF ~IsNa(x) /\ x \notin {S_nan, S_empty} THEN x ELSE None

\* lambda x: x if pd.notna(x) and x not in ['None', 'nan', ''] else None
NullNormalize(x) == IF ~IsNa(x) /\ x \notin {S_None, S_nan, S_empty} THEN x ELSE None

\* the final cleaning of one record of df_merged
FinalRecord(rec) ==
  [rec EXCEPT !.id = FillUnknown(@),
              !.scientific_name = FillUnknown(@),
              !.mimicry_ring = FillUnknown(@),
              !.sequencing_status = FillUnknown(@),
              !.subspecies = NullNormalize(@),
              !.image_url = NullNormalize(@),
              !.collection_location = NullNormalize(@),
              !.observation_date = NullNormalize(@),
              !.observation_url = NullNormalize(@)]

FinalClean(recs) == [i \in 1..Len(recs) |-> FinalRecord(recs[i])]

\* ------------------------------------------------------------------------
\* The pipeline run: process_data.main
\* ------------------------------------------------------------------------
VARIABLES
  pc,              \* the position of main
  dore_df,         \* the rows read from the workbook
  local_failed,    \* load_local_data took one of its except branches
  build_idx,       \* rows build_mimicry_lookup has processed
  MIMICRY_LOOKUP,  \* the global lookup table
  df_local,        \* the frame load_local_data returned
  sanger_rows,     \* the rows of the Collection_data sheet
  df_sanger,       \* the frame load_sanger_data returned
  gbif_rows,       \* the rows of occurrence.txt behind gbif_occurrences.json
  df_gbif,         \* the frame load_gbif_bulk_download returned
  df_merged,       \* the merged frame of main
  calls,           \* the calls of lookup_mimicry made so far, with results
  fn,              \* the function a caller applies on its own, outside main
  arg,             \* the argument of that call
  out,             \* the value the call returned
  returned,        \* the number of calls that have returned
  wait_pc,         \* the position of wait_for_download in its loop
  attempt,         \* the loop variable of gbif_download_api.wait_for_download
  polls,           \* the status requests gbif_download_api.wait_for_download has made
  elapsed,         \* seconds since start_time of gbif_download.wait_for_download
  status,          \* the status of the last reply
  result           \* how wait_for_download ended

mainvars == <<pc, dore_df, local_failed, build_idx, MIMICRY_LOOKUP, df_local,
              sanger_rows, df_sanger, gbif_rows, df_gbif, df_merged, calls>>

callvars == <<fn, arg, out, returned>>

waitvars == <<wait_pc, attempt, polls, elapsed, status, result>>

vars == <<mainvars, callvars, waitvars>>

\* wait_for_download has not been called
WaitIdle ==
  /\ wait_pc = "idle"
  /\ attempt = 0
  /\ polls = 0
  /\ elapsed = 0
  /\ status = "<unset>"
  /\ result = "<none>"

\* main has not started
MainInit ==
  /\ pc = "local"
  /\ dore_df = <<>>
  /\ local_failed = FALSE
  /\ build_idx = 0
  /\ MIMICRY_LOOKUP = {}
  /\ df_local = <<>>
  /\ sanger_rows = <<>>
  /\ df_sanger = <<>>
  /\ gbif_rows = <<>>
  /\ df_gbif = <<>>
  /\ df_merged = <<>>
  /\ calls = <<>>

\* main is about to run; no function is applied on its own
Init ==
  /\ MainInit
  /\ fn = "main"
  /\ arg = None
  /\ out = None
  /\ returned = 0
  /\ WaitIdle

\* load_local_data: the workbook is read and the frame computed; the lookup
\* table is built next, before the function returns
LoadLocalStart ==
  /\ pc = "local"
  /\ \E rows \in SeqsUpTo(RefRows, MaxRef) :
       /\ dore_df' = rows
       /\ df_local' = LocalResult(rows)
  /\ build_idx' = 0
  /\ pc' = "build"
  /\ UNCHANGED callvars
  /\ UNCHANGED waitvars
  /\ UNCHANGED <<local_failed, MIMICRY_LOOKUP, sanger_rows, df_sanger, gbif_rows,
                 df_gbif, df_merged, calls>>

\* the rows of a sheet that lacks the column col
WithoutColumn(rows, col) ==
  [i \in 1..Len(rows) |-> [k \in DOMAIN rows[i] \ {col} |-> rows[i][k]]]

\* a column load_local_data indexes without a test for its presence;
\* df[col] raises KeyError when the workbook lacks it
IndexedColumns == {"Genus"}

\* load_local_data: the workbook is missing (no row is read), or it is read
\* and lacks a column the function indexes; the except branch returns an
\* empty frame and build_mimicry_lookup is never called
LoadLocalFail ==
  /\ pc = "local"
  /\ \/ dore_df' = <<>>
     \/ \E rows \in SeqsUpTo(RefRows, MaxRef), col \in IndexedColumns :
          dore_df' = WithoutColumn(rows, col)
  /\ local_failed' = TRUE
  /\ df_local' = <<>>
  /\ pc' = "sanger"
  /\ UNCHANGED callvars
  /\ UNCHANGED waitvars
  /\ UNCHANGED <<build_idx, MIMICRY_LOOKUP, sanger_rows, df_sanger, gbif_rows,
                 df_gbif, df_merged, calls>>

\* build_mimicry_lookup: one iteration of its loop
BuildRow ==
  /\ pc = "build"
  /\ ~BuildDone(build_idx, dore_df)
  /\ MIMICRY_LOOKUP' = BuildInsert(MIMICRY_LOOKUP, dore_df[build_idx + 1])
  /\ build_idx' = build_idx + 1
  /\ UNCHANGED callvars
  /\ UNCHANGED waitvars
  /\ UNCHANGED <<pc, dore_df, local_failed, df_local, sanger_rows, df_sanger,
                 gbif_rows, df_gbif, df_merged, calls>>

\* build_mimicry_lookup returns and load_local_data returns its frame
LoadLocalReturn ==
  /\ pc = "build"
  /\ BuildDone(build_idx, dore_df)
  /\ pc' = "sanger"
  /\ UNCHANGED callvars
  /\ UNCHANGED waitvars
  /\ UNCHANGED <<dore_df, local_failed, build_idx, MIMICRY_LOOKUP, df_local,
                 sanger_rows, df_sanger, gbif_rows, df_gbif, df_merged, calls>>

\* the calls of lookup_mimicry a loader makes with the arguments args: the
\* history of calls grows and the table is what the calls leave behind
LookupsMade(args) ==
  /\ calls' = calls \o CallLog(MIMICRY_LOOKUP, args)
  /\ MIMICRY_LOOKUP' = TableAfterCalls(MIMICRY_LOOKUP, args)

\* load_sanger_data on the sheets it downloaded
LoadSanger ==
  /\ pc = "sanger"
  /\ \E rows \in SeqsUpTo(SangerRows, MaxSanger) :
       /\ sanger_rows' = rows
       /\ df_sanger' = SangerResult(MIMICRY_LOOKUP, rows)
       /\ LookupsMade(SangerArgs(rows))
  /\ pc' = "merge"
  /\ UNCHANGED callvars
  /\ UNCHANGED waitvars
  /\ UNCHANGED <<dore_df, local_failed, build_idx, df_local, gbif_rows, df_gbif,
                 df_merged>>

\* load_sanger_data: the download fails; the except branch returns an empty
\* frame
LoadSangerFail ==
  /\ pc = "sanger"
  /\ df_sanger' = <<>>
  /\ pc' = "merge"
  /\ UNCHANGED callvars
  /\ UNCHANGED waitvars
  /\ UNCHANGED <<dore_df, local_failed, build_idx, MIMICRY_LOOKUP, df_local,
                 sanger_rows, gbif_rows, df_gbif, df_merged, calls>>

\* main: no frame holds a row: sys.exit(1)
MainExit ==
  /\ pc = "merge"
  /\ df_local = <<>> /\ df_sanger = <<>>
  /\ pc' = "exit"
  /\ UNCHANGED callvars
  /\ UNCHANGED waitvars
  /\ UNCHANGED <<dore_df, local_failed, build_idx, MIMICRY_LOOKUP, df_local,
                 sanger_rows, df_sanger, gbif_rows, df_gbif, df_merged, calls>>

\* main: pd.concat of the non-empty frames among df_local and df_sanger
MainMerge ==
  /\ pc = "merge"
  /\ ~(df_local = <<>> /\ df_sanger = <<>>)
  /\ df_merged' = Concat(df_local, df_sanger)
  /\ pc' = "gbif"
  /\ UNCHANGED callvars
  /\ UNCHANGED waitvars
  /\ UNCHANGED <<dore_df, local_failed, build_idx, MIMICRY_LOOKUP, df_local,
                 sanger_rows, df_sanger, gbif_rows, df_gbif, calls>>

\* main: load_gbif_bulk_download on the file the download script wrote, and
\* the merge of its frame when it is not empty
LoadGbifRecords(records) ==
  /\ df_gbif' = GbifResult(MIMICRY_LOOKUP, records)
  /\ LookupsMade(GbifArgs(GbifNamed(records)))
  /\ df_merged' = IF df_gbif' # <<>> THEN Concat(df_merged, df_gbif') ELSE df_merged

LoadGbif ==
  /\ pc = "gbif"
  /\ \E rows \in SeqsUpTo(GbifRows, MaxGbif) :
       /\ gbif_rows' = rows
       /\ LoadGbifRecords(process_occurrence_file(rows))
  /\ pc' = "final"
  /\ UNCHANGED callvars
  /\ UNCHANGED waitvars
  /\ UNCHANGED <<dore_df, local_failed, build_idx, df_local, sanger_rows, df_sanger>>

\* main: gbif_occurrences.json does not exist; the loader returns an empty
\* frame and nothing is merged
LoadGbifMissing ==
  /\ pc = "gbif"
  /\ df_gbif' = <<>>
  /\ pc' = "final"
  /\ UNCHANGED callvars
  /\ UNCHANGED waitvars
  /\ UNCHANGED <<dore_df, local_failed, build_idx, MIMICRY_LOOKUP, df_local,
                 sanger_rows, df_sanger, gbif_rows, df_merged, calls>>

\* main: the final cleaning; df_merged is then written to map_points.json
FinalCleaning ==
  /\ pc = "final"
  /\ df_merged' = FinalClean(df_merged)
  /\ pc' = "done"
  /\ UNCHANGED callvars
  /\ UNCHANGED waitvars
  /\ UNCHANGED <<dore_df, local_failed, build_idx, MIMICRY_LOOKUP, df_local,
                 sanger_rows, df_sanger, gbif_rows, df_gbif, calls>>

Next ==
  \/ LoadLocalStart
  \/ LoadLocalFail
  \/ BuildRow
  \/ LoadLocalReturn
  \/ LoadSanger
  \/ LoadSangerFail
  \/ MainExit
  \/ MainMerge
  \/ LoadGbif
  \/ LoadGbifMissing
  \/ FinalCleaning

Spec == Init /\ [][Next]_vars

\* ------------------------------------------------------------------------
\* The functions of the scripts applied on their own: a caller picks one
\* function and an argument, and applies it
\* ------------------------------------------------------------------------
\* the citations an input of clean_scientific_name ends in, at most
MaxCitations == 2

\* names, codes and malformed names a GBIF row carries in species or
\* scientificName
NameHeads ==
  {<<"A","e"," ","e","l">>,
   <<"A","e"," ","e","l"," ","e","x">>,
   <<" ","A","e"," "," ","e","l"," ">>,
   <<"a","e"," ","e","l">>,
   <<"A","e"," ","E","l">>,
   <<"A","e">>,
   <<>>,
   <<"B","O","L","D",":","A","A","1">>,
   <<" ","B","O","L","D",":","A","e"," ","e","l">>,
   <<"A","B","1"," ","e","l">>,
   <<"A","B","C","1","2"," ","e","l">>,
   <<"A","1"," ","e","l">>,
   <<"A","B"," ","e","l">>}

\* author citations and texts that resemble them
CitationSuffixes ==
  {<<" ","(","X","y",","," ","1","8","6","6",")">>,
   <<" ","(","X","y"," ","1","8","6","6",")">>,
   <<" ","X","y",","," ","1","8","6","6">>,
   <<" ","X","y"," ","1","8","6","6">>,
   <<" ","(","X",","," ","1","8","6","6",")">>,
   <<" ","(","d","'","A","l",","," ","1","8","6","6",")">>,
   <<" ","(","X","y",","," ","1","8","6",")">>,
   <<" ","(","X","."," ","&"," ","Z","z",","," ","1","8","6","6",")">>}

RECURSIVE ConcatAll(_)
ConcatAll(ss) == IF ss = <<>> THEN <<>> ELSE Head(ss) \o ConcatAll(Tail(ss))

\* the arguments of clean_scientific_name: no name, or a head followed by
\* up to MaxCitations suffixes
NameInputs ==
  {None} \cup {h \o ConcatAll(c) : h \in NameHeads,
                                   c \in SeqsUpTo(CitationSuffixes, MaxCitations)}

\* a caller is about to apply a function to an argument
\* rows of occurrence.txt that differ in the four fields get_source and
\* get_observation_url read
SourceInputs ==
  {[GbifRow1 EXCEPT !.datasetKey = d, !.institutionCode = i,
                    !.occurrenceID = o, !.references = r] :
     d \in {None, INATURALIST_DATASET_KEY, <<"5","0","c","9">>},
     i \in {<<>>, <<"i","N","a","t","u","r","a","l","i","s","t">>, <<"I","N","A","T","U","R","A","L","I","S","T">>, <<"M","N","H","N">>},
     o \in {None, <<>>, <<"1","2","3">>,
            <<"h","t","t","p","s",":","/","/","w","w","w",".","i","n","a","t","u","r","a","l","i","s","t",".","o","r","g","/","o","b","s","e","r","v","a","t","i","o","n","s","/","5","5">>,
            <<"h","t","t","p",":","/","/","i","n","a","t","u","r","a","l","i","s","t",".","o","r","g","/","o","b","s","e","r","v","a","t","i","o","n","s","/","7","x">>,
            <<"w","w","w",".","i","N","a","t","u","r","a","l","i","s","t",".","o","r","g","/","o","b","s","e","r","v","a","t","i","o","n","s","/","9">>,
            <<"u","r","n",":","c","a","t","a","l","o","g",":","1","2">>,
            <<"a","b","c">>},
     r \in {None, <<"h","t","t","p",":","/","/","r">>,
            <<"h","t","t","p","s",":","/","/","w","w","w",".","i","n","a","t","u","r","a","l","i","s","t",".","o","r","g","/","o","b","s","e","r","v","a","t","i","o","n","s","/","3">>,
            <<"f","t","p">>}}

CallInit ==
  /\ MainInit
  /\ WaitIdle
  /\ out = None
  /\ returned = 0
  /\ \/ fn = "clean_scientific_name" /\ arg \in NameInputs
     \/ fn = "process_occurrence_file" /\ arg \in {<<row>> : row \in OccurrenceInputs}
     \/ /\ fn = "normalize_mimicry"
        /\ arg \in {None, <<>>,
                   <<"n","a","n">>,
                   <<"N","A","N">>,
                   <<"N","a","N">>,
                   <<"N","a","n">>,
                   <<"u","n","k","n","o","w","n">>,
                   <<"U","n","k","n","o","w","n">>,
                   <<"U","N","K","N","O","W","N">>,
                   <<"r","e","d">>,
                   <<"B","L","U","E">>,
                   <<" ">>,
                   <<" ","r","e","d"," ">>,
                   <<"a","G","n","o","s","i","a">>}
     \/ /\ fn \in {"get_collection_location", "best_location"}
        /\ arg \in {[GbifRow1 EXCEPT !.locality = l, !.verbatimLocality = v,
                                      !.municipality = m, !.county = c,
                                      !.stateProvince = s] :
                      l \in {None, <<>>, <<" ","Q","u"," ">>},
                      v \in {<<>>, <<"n","a","n">>, <<"V","e">>},
                      m \in {<<>>, <<" ","N","A"," ">>, <<"M","u">>},
                      c \in {<<>>, <<"N","o","n","e">>, <<"L","o">>},
                      s \in {<<>>, <<" ">>, <<"Z","z">>}}
     \/ fn \in {"get_source", "get_observation_url"} /\ arg \in SourceInputs
     \/ fn = "load_multimedia_lookup" /\ arg \in SeqsUpTo(MediaRows, MaxMedia)
     \/ /\ fn = "determine_sequencing_status"
        /\ arg \in {[k \in K |-> IF k = "Tube_1_rack" THEN r ELSE s] :
                      K \in SUBSET {"Tube_1_rack", "Tube_1_tissue"},
                      r \in {None, PyNone, <<>>,
                             <<"A","B">>,
                             <<"A","B","C","D","E">>,
                             <<"A","B","C","D","E","F">>,
                             <<"A","B"," "," "," "," ">>,
                             <<" ","R","A","C","K","0","1"," ">>,
                             <<" "," "," "," "," "," ">>,
                             <<"N","o","t"," ","i","n"," ","T","O","L">>,
                             <<"R","A","C","K"," ","N","o","t"," ","i","n"," ","T","O","L"," ","0","1">>},
                      s \in {None, PyNone, <<>>,
                             <<"T","1">>,
                             <<" ">>,
                             <<"N","O","T","_","C","O","L","L","E","C","T","E","D">>,
                             <<"x"," ","N","O","T","_","C","O","L","L","E","C","T","E","D"," ","y">>}}

\* clean_scientific_name(arg) returns
CallCleanScientificName ==
  /\ fn = "clean_scientific_name"
  /\ returned = 0
  /\ out' = clean_scientific_name(arg)
  /\ returned' = 1
  /\ UNCHANGED <<fn, arg>>
  /\ UNCHANGED mainvars
  /\ UNCHANGED waitvars

\* the caller cleans the name it got once more
CallCleanScientificNameAgain ==
  /\ fn = "clean_scientific_name"
  /\ returned = 1
  /\ out # None
  /\ arg' = out
  /\ out' = clean_scientific_name(out)
  /\ returned' = 2
  /\ UNCHANGED fn
  /\ UNCHANGED mainvars
  /\ UNCHANGED waitvars

\* process_occurrence_file returns the records of a file of one row
CallProcessOccurrenceFile ==
  /\ fn = "process_occurrence_file"
  /\ returned = 0
  /\ out' = process_occurrence_file(arg)
  /\ returned' = 1
  /\ UNCHANGED <<fn, arg>>
  /\ UNCHANGED mainvars
  /\ UNCHANGED waitvars

\* load_gbif_bulk_download reads the file process_occurrence_file wrote:
\* out holds the file, the arguments of the lookups and the returned frame
CallLoadGbifBulkDownload ==
  /\ fn = "process_occurrence_file"
  /\ returned = 1
  /\ \E file \in {out, WithoutBasis(out)} :
       out' = [file |-> file, lookups |-> GbifArgs(GbifNamed(file)),
               frame |-> GbifResult({}, file)]
  /\ fn' = "load_gbif_bulk_download"
  /\ returned' = 2
  /\ UNCHANGED arg
  /\ UNCHANGED mainvars
  /\ UNCHANGED waitvars

\* normalize_mimicry(arg) returns
CallNormalizeMimicry ==
  /\ fn = "normalize_mimicry"
  /\ returned = 0
  /\ out' = normalize_mimicry(arg)
  /\ returned' = 1
  /\ UNCHANGED <<fn, arg>>
  /\ UNCHANGED mainvars
  /\ UNCHANGED waitvars

\* get_collection_location(arg) returns
CallGetCollectionLocation ==
  /\ fn = "get_collection_location"
  /\ returned = 0
  /\ out' = get_collection_location(arg)
  /\ returned' = 1
  /\ UNCHANGED <<fn, arg>>
  /\ UNCHANGED mainvars
  /\ UNCHANGED waitvars

\* enrich_gbif_locations.main resolves best_location from the location
\* fields fetched for a record
CallBestLocation ==
  /\ fn = "best_location"
  /\ returned = 0
  /\ out' = best_location(arg)
  /\ returned' = 1
  /\ UNCHANGED <<fn, arg>>
  /\ UNCHANGED mainvars
  /\ UNCHANGED waitvars

\* get_source(arg) returns
CallGetSource ==
  /\ fn = "get_source"
  /\ returned = 0
  /\ out' = get_source(arg)
  /\ returned' = 1
  /\ UNCHANGED <<fn, arg>>
  /\ UNCHANGED mainvars
  /\ UNCHANGED waitvars

\* get_observation_url(arg) returns
CallGetObservationUrl ==
  /\ fn = "get_observation_url"
  /\ returned = 0
  /\ out' = get_observation_url(arg)
  /\ returned' = 1
  /\ UNCHANGED <<fn, arg>>
  /\ UNCHANGED mainvars
  /\ UNCHANGED waitvars

\* load_multimedia_lookup returns, multimedia.txt holding the rows arg
CallLoadMultimediaLookup ==
  /\ fn = "load_multimedia_lookup"
  /\ returned = 0
  /\ out' = load_multimedia_lookup(arg)
  /\ returned' = 1
  /\ UNCHANGED <<fn, arg>>
  /\ UNCHANGED mainvars
  /\ UNCHANGED waitvars

\* determine_sequencing_status(arg) returns
CallDetermineSequencingStatus ==
  /\ fn = "determine_sequencing_status"
  /\ returned = 0
  /\ out' = determine_sequencing_status(arg)
  /\ returned' = 1
  /\ UNCHANGED <<fn, arg>>
  /\ UNCHANGED mainvars
  /\ UNCHANGED waitvars

CallNext ==
  \/ CallCleanScientificName
  \/ CallCleanScientificNameAgain
  \/ CallProcessOccurrenceFile
  \/ CallLoadGbifBulkDownload
  \/ CallNormalizeMimicry
  \/ CallGetCollectionLocation
  \/ CallBestLocation
  \/ CallDetermineSequencingStatus
  \/ CallGetSource
  \/ CallGetObservationUrl
  \/ CallLoadMultimediaLookup

CallSpec == CallInit /\ [][CallNext]_vars


\* ------------------------------------------------------------------------
\* The two wait_for_download loops of the download scripts: GBIF answers
\* each status request with a status, or the request fails
\* ------------------------------------------------------------------------
MAX_POLL_ATTEMPTS == 120

\* main of gbif_download.py: wait_for_download(download_key, max_wait_minutes=30)
max_wait_minutes == 30

\* time.sleep(30), in seconds
SleepSeconds == 30

\* the clock of the model stops at this many seconds
MaxElapsed == 1860

FailedStatuses == {"FAILED", "KILLED", "CANCELLED"}

PreparingStatuses == {"PREPARING", "RUNNING", "PENDING"}

\* the statuses a reply carries: those the scripts name, two more of the
\* GBIF API, and a reply without a status
ReplyStatuses ==
  {"SUCCEEDED"} \cup FailedStatuses \cup PreparingStatuses
    \cup {"SUSPENDED", "FILE_ERASED", "<missing>"}

\* a request that raises, or is answered with an error code
RequestError == "<error>"

\* a loop that runs one more iteration than range(MAX_POLL_ATTEMPTS)
RangeDone_offByOne(i) == i > MAX_POLL_ATTEMPTS

\* for attempt in range(MAX_POLL_ATTEMPTS): the loop has run out
RangeDone(i) == i >= MAX_POLL_ATTEMPTS

\* gbif_download_api.wait_for_download: one status request of the loop
ApiPoll ==
  /\ fn = "gbif_download_api.wait_for_download"
  /\ wait_pc = "poll"
  /\ ~RangeDone(attempt)
  /\ polls' = polls + 1
  /\ \E reply \in ReplyStatuses \cup {RequestError} :
       /\ status' = IF reply = RequestError THEN status ELSE reply
       /\ IF reply = "SUCCEEDED"
          THEN wait_pc' = "done" /\ result' = "return data"
          ELSE IF reply \in FailedStatuses
          THEN wait_pc' = "done" /\ result' = "exit: download failed"
          ELSE wait_pc' = "sleep" /\ result' = result
  /\ UNCHANGED <<attempt, elapsed>>
  /\ UNCHANGED mainvars
  /\ UNCHANGED callvars

\* gbif_download_api.wait_for_download: time.sleep(POLL_INTERVAL_SECONDS)
\* and the next value of the loop variable
ApiSleep ==
  /\ fn = "gbif_download_api.wait_for_download"
  /\ wait_pc = "sleep"
  /\ attempt' = attempt + 1
  /\ wait_pc' = "poll"
  /\ UNCHANGED <<polls, elapsed, status, result>>
  /\ UNCHANGED mainvars
  /\ UNCHANGED callvars

\* gbif_download_api.wait_for_download: the loop has run out: sys.exit(1)
ApiTimeout ==
  /\ fn = "gbif_download_api.wait_for_download"
  /\ wait_pc = "poll"
  /\ RangeDone(attempt)
  /\ wait_pc' = "done"
  /\ result' = "exit: timed out"
  /\ UNCHANGED <<attempt, polls, elapsed, status>>
  /\ UNCHANGED mainvars
  /\ UNCHANGED callvars

\* gbif_download.wait_for_download: one iteration of while True up to its
\* return or its sleep
DownloadPoll ==
  /\ fn = "gbif_download.wait_for_download"
  /\ wait_pc = "poll"
  /\ \E reply \in ReplyStatuses \cup {RequestError} :
       /\ status' = IF reply = RequestError THEN status
                    ELSE IF reply = "<missing>" THEN "UNKNOWN"
                    ELSE reply
       /\ IF reply = RequestError
          THEN wait_pc' = "done" /\ result' = "return False: no status"
          ELSE IF reply = "SUCCEEDED"
          THEN wait_pc' = "done" /\ result' = "return True"
          ELSE IF reply \in FailedStatuses
          THEN wait_pc' = "done" /\ result' = "return False: download failed"
          ELSE IF reply \in PreparingStatuses /\ elapsed > max_wait_minutes * 60
          THEN wait_pc' = "done" /\ result' = "return False: timeout"
          ELSE wait_pc' = "sleep" /\ result' = result
  /\ UNCHANGED <<attempt, polls, elapsed>>
  /\ UNCHANGED mainvars
  /\ UNCHANGED callvars

\* gbif_download.wait_for_download: time.sleep(30)
DownloadSleep ==
  /\ fn = "gbif_download.wait_for_download"
  /\ wait_pc = "sleep"
  /\ elapsed' = IF elapsed + SleepSeconds <= MaxElapsed
                THEN elapsed + SleepSeconds ELSE elapsed
  /\ wait_pc' = "poll"
  /\ UNCHANGED <<attempt, polls, status, result>>
  /\ UNCHANGED mainvars
  /\ UNCHANGED callvars

\* a caller calls one of the two wait_for_download
WaitInit ==
  /\ MainInit
  /\ fn \in {"gbif_download_api.wait_for_download", "gbif_download.wait_for_download"}
  /\ arg = None
  /\ out = None
  /\ returned = 0
  /\ wait_pc = "poll"
  /\ attempt = 0
  /\ polls = 0
  /\ elapsed = 0
  /\ status = "<unset>"
  /\ result = "<none>"

WaitNext ==
  \/ ApiPoll
  \/ ApiSleep
  \/ ApiTimeout
  \/ DownloadPoll
  \/ DownloadSleep

\* the loop keeps running: a request is answered or fails, a sleep ends
WaitSpec == WaitInit /\ [][WaitNext]_vars /\ WF_vars(WaitNext)

\* ------------------------------------------------------------------------
\* Properties
\* ------------------------------------------------------------------------
AfterBuild == pc \in {"sanger", "merge", "gbif", "final", "done", "exit"}

\* names and subspecies the lookup is probed with, besides the calls made
ProbeNames ==
  {None, <<>>, <<"A","e"," ","e","l">>, <<" ","A","E"," ","e","l"," ">>,
   <<"A","e"," ","m","a">>, <<"Z","z"," ","z","z">>}

ProbeSubspecies == {None, <<>>, <<"e","x">>, <<" ","E","X">>, <<"z","z">>}

\* the two-tier reference with the keys (lower(name), lower(subspecies))
LookupReferenceLower(tbl, name, ssp) ==
  IF name = None \/ name = <<>> THEN UnknownPair
  ELSE IF ssp # None /\ ssp # <<>> /\ HasKey(tbl, <<Lower(name), Lower(ssp)>>)
       THEN Get(tbl, <<Lower(name), Lower(ssp)>>)
  ELSE IF HasKey(tbl, <<Lower(name), None>>) THEN Get(tbl, <<Lower(name), None>>)
  ELSE UnknownPair

\* the two-tier reference with both key parts lower-cased and trimmed
LookupReferenceTrimmed(tbl, name, ssp) ==
  IF name = None \/ name = <<>> THEN UnknownPair
  ELSE IF ssp # None /\ ssp # <<>> /\ HasKey(tbl, <<Strip(Lower(name)), Strip(Lower(ssp))>>)
       THEN Get(tbl, <<Strip(Lower(name)), Strip(Lower(ssp))>>)
  ELSE IF HasKey(tbl, <<Strip(Lower(name)), None>>)
       THEN Get(tbl, <<Strip(Lower(name)), None>>)
  ELSE UnknownPair

\* C1 as stated: every call of lookup_mimicry, and every probe of it against
\* a table build_mimicry_lookup has produced, returns what the two-tier
\* reference returns with the keys (lower(name), lower(subspecies)).
C1_LookupIsLowerReference ==
  /\ \A i \in 1..Len(calls) :
       calls[i].result =
         LookupReferenceLower(MIMICRY_LOOKUP, calls[i].scientific_name, calls[i].subspecies)
  /\ pc \in {"build", "sanger"} =>
       \A name \in ProbeNames, ssp \in ProbeSubspecies :
         lookup_mimicry(MIMICRY_LOOKUP, name, ssp)
           = LookupReferenceLower(MIMICRY_LOOKUP, name, ssp)

\* C1 amended: every call of lookup_mimicry, and every probe of it against a
\* table build_mimicry_lookup has produced, returns what the two-tier
\* reference returns when both key parts are lower-cased and trimmed of
\* surrounding whitespace: Unknown for an empty name, else the full-key entry
\* when the subspecies is present and the key is in the table, else the
\* species-only entry, else Unknown.
C1_LookupIsTrimmedReference ==
  /\ \A i \in 1..Len(calls) :
       calls[i].result =
         LookupReferenceTrimmed(MIMICRY_LOOKUP, calls[i].scientific_name, calls[i].subspecies)
  /\ pc \in {"build", "sanger"} =>
       \A name \in ProbeNames, ssp \in ProbeSubspecies :
         lookup_mimicry(MIMICRY_LOOKUP, name, ssp)
           = LookupReferenceTrimmed(MIMICRY_LOOKUP, name, ssp)

\* a call with a padded name and a subspecies that is not in the table was
\* answered from the species-only entry
C1_Witness ==
  \E i \in 1..Len(calls) :
    LET c == calls[i]
    IN /\ c.subspecies # None
       /\ c.scientific_name # Strip(c.scientific_name)
       /\ ~HasKey(MIMICRY_LOOKUP, <<Strip(Lower(c.scientific_name)), Strip(Lower(c.subspecies))>>)
       /\ HasKey(MIMICRY_LOOKUP, <<Strip(Lower(c.scientific_name)), None>>)
       /\ c.result = Get(MIMICRY_LOOKUP, <<Strip(Lower(c.scientific_name)), None>>)
       /\ c.result # UnknownPair

\* the rows build_mimicry_lookup has processed so far
Processed == SubSeq(dore_df, 1, build_idx)

SpeciesKeyOf(row) == Lower(BuildSciName(row))

FullKeyOf(row) ==
  IF BuildSubspecies(row) = None THEN None ELSE Lower(BuildSubspecies(row))

FirstIndex(P(_)) ==
  CHOOSE j \in 1..build_idx : P(Processed[j]) /\ \A k \in 1..(j - 1) : ~P(Processed[k])

C3_TableImmutableAfterBuild ==
  [][AfterBuild => MIMICRY_LOOKUP' = MIMICRY_LOOKUP]_vars

\* the run is over, the table was built and a lookup missed it
C3_Witness ==
  /\ pc = "done"
  /\ MIMICRY_LOOKUP # {}
  /\ \E i \in 1..Len(calls) : calls[i].result = UnknownPair
  /\ \E i \in 1..Len(calls) : calls[i].result # UnknownPair

BatchOrder ==
  /\ pc \in {"local", "build"} => calls = <<>> /\ df_sanger = <<>> /\ df_gbif = <<>>
  /\ pc \in {"sanger", "merge"} => df_gbif = <<>>

C5_Scenario ==
  /\ pc = "done"
  /\ ~local_failed
  /\ Len(dore_df) = 1 /\ Len(df_local) = 1
  /\ df_sanger = <<>>
  /\ Len(gbif_rows) = 1 /\ Len(df_gbif) = 1
  /\ Strip(Lower(df_gbif[1].scientific_name)) = Lower(BuildSciName(dore_df[1]))

\* C5: one reference row and one aggregator row of the same species give two
\* output records, and the aggregator record's mimicry_ring is the reference
\* record's, the normalized male ring of the reference row.
C5_AggregatorInheritsRing ==
  C5_Scenario =>
    /\ Len(df_merged) = 2
    /\ df_merged[1].source = "Dore et al. (2025)"
    /\ df_merged[2].source \in {"GBIF", "iNaturalist"}
    /\ df_merged[2].mimicry_ring = df_merged[1].mimicry_ring
    /\ df_merged[2].mimicry_ring = normalize_mimicry(dore_df[1].MMimicry)

\* the scenario happened with a known ring, found through the species-only
\* entry for a subspecies the reference row does not have
C5_Witness ==
  /\ C5_Scenario
  /\ df_merged[2].mimicry_ring # S_Unknown
  /\ df_merged[2].subspecies # None
  /\ BuildSubspecies(dore_df[1]) = None

\* the ids of a sequence of records, the records of one source, and the
\* rows of each batch the loaders retain
IdsOf(recs) == [i \in 1..Len(recs) |-> recs[i].id]

IsReference(rec) == rec.source = "Dore et al. (2025)"

IsField(rec) == rec.source = "Sanger Institute"

IsAggregator(rec) == rec.source \in {"GBIF", "iNaturalist"}

RefRowRetained(row) ==
  NotNaN(ToNumeric(row.Latitude)) /\ NotNaN(ToNumeric(row.Longitude))

SangerRowRetained(row) ==
  /\ NotNaN(ToNumeric(row.DECIMAL_LATITUDE)) /\ NotNaN(ToNumeric(row.DECIMAL_LONGITUDE))
  /\ clean_id(row.CAM_ID) # <<>>

GbifCoordinateRead(x) == x # None /\ x # <<>> /\ FloatOf(x).ok

GbifNameAccepted(name) == Truthy(name) /\ clean_species_name(name) # None

GbifRowRetained(row) ==
  /\ GbifCoordinateRead(row.decimalLatitude) /\ GbifCoordinateRead(row.decimalLongitude)
  /\ IF Truthy(row.genus) /\ Truthy(row.specificEpithet)
     THEN GbifNameAccepted(row.genus \o <<" ">> \o row.specificEpithet)
     ELSE GbifNameAccepted(clean_scientific_name(OccurrenceFullName(row)))

RefIdOf(row) == S_DORE_ \o Str(row.ID_obs)

SangerIdOf(row) == clean_id(row.CAM_ID)

GbifIdOf(row) == Str(row.gbifID)

\* the verdicts on the rows of the model, computed once
RetainedRows ==
  [row \in RefRows \cup SangerRows \cup GbifRows |->
     IF row \in RefRows THEN RefRowRetained(row)
     ELSE IF row \in SangerRows THEN SangerRowRetained(row)
     ELSE GbifRowRetained(row)]

IsRetainedRow(row) == RetainedRows[row]

RefIds(rows) == [i \in 1..Len(rows) |-> RefIdOf(rows[i])]

SangerIds(rows) == [i \in 1..Len(rows) |-> SangerIdOf(rows[i])]

GbifIds(rows) == [i \in 1..Len(rows) |-> GbifIdOf(rows[i])]

RetainedRefIds ==
  IF local_failed THEN <<>> ELSE RefIds(SelectSeq(dore_df, IsRetainedRow))

RetainedSangerIds == SangerIds(SelectSeq(sanger_rows, IsRetainedRow))

RetainedGbifIds == GbifIds(SelectSeq(gbif_rows, IsRetainedRow))

InRange(x, lo, hi) == NotNaN(x) => lo <= x[1] /\ x[1] <= hi

\* C7: every output record with numeric coordinates has lat within
\* [-90, 90] and lng within [-180, 180], whatever numeric values the input
\* coordinate fields hold.
C7_CoordinatesInRange ==
  pc = "done" =>
    \A i \in 1..Len(df_merged) :
      /\ InRange(df_merged[i].lat, -90, 90)
      /\ InRange(df_merged[i].lng, -180, 180)

OptionalFields ==
  {"subspecies", "image_url", "collection_location", "observation_date", "observation_url"}

\* C8: the final null-normalization leaves no optional field equal to
\* 'None', 'nan' or '': each such value becomes absent, and every other
\* value of these fields is left unchanged.
C8_NullNormalization ==
  [][pc' = "done" =>
       /\ Len(df_merged') = Len(df_merged)
       /\ \A i \in 1..Len(df_merged) : \A f \in OptionalFields :
            /\ df_merged'[i][f] \notin {S_None, S_nan, S_empty}
            /\ df_merged'[i][f] =
                 IF df_merged[i][f] \in {S_None, S_nan, S_empty, None}
                 THEN None ELSE df_merged[i][f]]_vars

\* the output holds a reference record whose collection_location was the
\* text 'None' and is absent now, and whose other optional values are kept
C8_Witness ==
  /\ pc = "done"
  /\ \E i \in 1..Len(df_local) :
       /\ df_local[i].collection_location = S_None
       /\ df_merged[i].collection_location = None
       /\ df_local[i].subspecies # None
       /\ df_merged[i].subspecies = df_local[i].subspecies

SourceAndId(recs) == [i \in 1..Len(recs) |-> <<recs[i].source, recs[i].id>>]

\* C9: the output is the concatenation of the records retained from the
\* reference, field-collection and aggregator batches, in that order, each
\* batch in source row order; records with equal ids are all kept, and the
\* length is the sum of the retained counts.
C9_OutputIsConcatenation ==
  pc = "done" =>
    /\ Len(df_merged) = Len(df_local) + Len(df_sanger) + Len(df_gbif)
    /\ SourceAndId(df_merged)
         = SourceAndId(df_local) \o SourceAndId(df_sanger) \o SourceAndId(df_gbif)
    /\ IdsOf(df_merged) = RetainedRefIds \o RetainedSangerIds \o RetainedGbifIds

\* two reference rows with one id, in row order, and a field-collection and
\* an aggregator record with one id are all in the output
C9_Witness ==
  /\ pc = "done"
  /\ Len(df_local) = 2 /\ Len(df_sanger) = 1 /\ Len(df_gbif) = 1
  /\ df_merged[1].id = df_merged[2].id
  /\ df_merged[1].lat # df_merged[2].lat
  /\ df_merged[3].id = df_merged[4].id
  /\ df_merged[1] = FinalRecord(AllColumns(LocalRecord(dore_df[1])))

StartsWithCode(name) ==
  \E k \in 2..(Len(name) - 1) :
     /\ \A j \in 1..k : IsUpperCh(name[j])
     /\ IsDigitCh(name[k + 1])

\* the arguments C11 names
IsCodeOrEmpty(name) ==
  \/ name = None
  \/ name = <<>>
  \/ StartsWith(name, S_BOLD)
  \/ StartsWithCode(name)

Cleaned == fn = "clean_scientific_name" /\ returned = 1

\* C11: clean_scientific_name returns no name for every argument that is
\* empty, starts with 'BOLD:', or starts with two or more uppercase letters
\* immediately followed by a digit, whatever citation or name follows
C11_CodesAndEmptyRejected ==
  (Cleaned /\ IsCodeOrEmpty(arg)) => out = None

\* a specimen code followed by an epithet, which the token checks alone
\* would have let through, was cleaned to no name
C11_Witness ==
  /\ Cleaned
  /\ StartsWithCode(arg)
  /\ NameOfParts(Split(arg)) # None
  /\ out = None

\* at least two tokens, the first starting uppercase, the second lowercase
TokenChecksPass(parts) ==
  /\ Len(parts) >= 2
  /\ IsUpperCh(parts[1][1])
  /\ IsLowerCh(parts[2][1])

NoWhitespaceRun(s) ==
  \A i \in 1..(Len(s) - 1) : ~(IsSpaceCh(s[i]) /\ IsSpaceCh(s[i + 1]))

\* the argument after strip() and the three substitutions
CitationsRemoved(name) ==
  SubBareCitation(SubCommaCitation(SubParenCitation(Strip(name))))

\* C12: every name clean_scientific_name returns has at least two
\* whitespace-separated tokens, the first starting with an uppercase letter
\* and the second with a lowercase letter, and no run of two or more
\* whitespace characters; an argument whose form without citations fails a
\* token check gives no name
C12_ResultIsWellFormedName ==
  Cleaned =>
    /\ out # None => (TokenChecksPass(Split(out)) /\ NoWhitespaceRun(out))
    /\ (Truthy(arg) /\ ~TokenChecksPass(Split(CitationsRemoved(arg)))) => out = None

\* a name written with a run of two blanks was returned
C12_Witness ==
  /\ Cleaned
  /\ out # None
  /\ ~NoWhitespaceRun(arg)

\* a binomial or trinomial: a capitalised genus and one or two lowercase
\* epithets, single blanks between them
IsLowerWord(w) == w # <<>> /\ \A i \in 1..Len(w) : IsLowerCh(w[i])

IsGenusWord(w) == w # <<>> /\ IsUpperCh(w[1]) /\ IsLowerWord(Tail(w))

IsPlainName(h) ==
  /\ Len(Split(h)) \in {2, 3}
  /\ h = JoinSp(Split(h))
  /\ IsGenusWord(Split(h)[1])
  /\ \A i \in 2..Len(Split(h)) : IsLowerWord(Split(h)[i])

\* the text ' (Author, Year)' with a year of four digits
IsAuthorYear(c) ==
  /\ Len(c) >= 10
  /\ c[1] = " " /\ c[2] = "("
  /\ c[Len(c)] = ")"
  /\ \A i \in (Len(c) - 4)..(Len(c) - 1) : IsDigitCh(c[i])
  /\ c[Len(c) - 5] = " " /\ c[Len(c) - 6] = ","
  /\ \A i \in 3..(Len(c) - 7) : c[i] \notin {"(", ")", ","}

AuthorOf(c) == SubSeq(c, 3, Len(c) - 7)

\* an uppercase letter and then one or more letters, blanks, '&', '.', '-'
IsCapitalizedAuthor(a) ==
  /\ Len(a) >= 2
  /\ IsUpperCh(a[1])
  /\ \A i \in 2..Len(a) : IsAlphaCh(a[i]) \/ IsSpaceCh(a[i]) \/ a[i] \in {"&", ".", "-"}

\* C13 as stated: for every argument 'Genus species (Author, Year)' or
\* 'Genus species subspecies (Author, Year)' with a year of four digits,
\* clean_scientific_name returns exactly the name tokens
C13_CitationRemoved ==
  \A h \in NameHeads, c \in CitationSuffixes :
    (Cleaned /\ IsPlainName(h) /\ IsAuthorYear(c) /\ arg = h \o c) => out = h

\* C13 as the code has it: the name tokens are returned when the author is
\* an uppercase letter followed by one or more letters, blanks, '&', '.' or
\* '-'; with any other author the citation stays in the result
C13_CapitalizedCitationRemoved ==
  \A h \in NameHeads, c \in CitationSuffixes :
    (Cleaned /\ IsPlainName(h) /\ IsAuthorYear(c) /\ arg = h \o c) =>
      IF IsCapitalizedAuthor(AuthorOf(c)) THEN out = h ELSE out = h \o c

\* a trinomial with the citation of two abbreviated authors was cleaned to
\* its three name tokens
C13_Witness ==
  \E h \in NameHeads, c \in CitationSuffixes :
    /\ Cleaned /\ IsPlainName(h) /\ IsAuthorYear(c) /\ arg = h \o c
    /\ Len(Split(h)) = 3
    /\ \E i \in 1..Len(c) : c[i] = "&"
    /\ out = h

\* C14: clean_scientific_name is idempotent: when the caller cleans a name
\* it got from clean_scientific_name once more (arg is then the first
\* result and out the second), the second result is the first
C14_CleanIsIdempotent ==
  (fn = "clean_scientific_name" /\ returned = 2) => out = arg

\* ------------------------------------------------------------------------
\* process_occurrence_file and load_gbif_bulk_download
\* ------------------------------------------------------------------------
Processed1 == fn = "process_occurrence_file" /\ returned = 1

HasGenusAndEpithet(row) == Truthy(row.genus) /\ Truthy(row.specificEpithet)

WithoutFullNames(row) == [row EXCEPT !.species = <<>>, !.scientificName = <<>>]

\* C15: when genus and specificEpithet of a row are both non-empty, the
\* scientific_name of its record is exactly genus + ' ' + specificEpithet,
\* and species and scientificName are neither consulted nor cleaned: the
\* record is the one of the same row with both columns empty
C15_GenusAndEpithetAreAuthoritative ==
  (Processed1 /\ HasGenusAndEpithet(arg[1])) =>
    /\ Len(out) = 1
    /\ out[1].scientific_name = arg[1].genus \o <<" ">> \o arg[1].specificEpithet
    /\ out = process_occurrence_file(<<WithoutFullNames(arg[1])>>)

\* a row with genus, epithet and a BOLD identifier in species got the name
\* composed of genus and epithet
C15_Witness ==
  /\ Processed1
  /\ HasGenusAndEpithet(arg[1])
  /\ StartsWith(arg[1].species, S_BOLD)
  /\ Truthy(arg[1].scientificName)
  /\ Len(out) = 1
  /\ out[1].scientific_name = <<"A","e"," ","e","l">>

\* split_scientific_name's rule for the third part: the remaining tokens
\* joined by blanks, absent when there are none
RemainingTokens(parts) ==
  IF Len(parts) > 2 THEN JoinSp(SubSeq(parts, 3, Len(parts))) ELSE None

\* the record rec holds the parts split_scientific_name's rule gives
HoldsParts(rec, parts) ==
  /\ rec.genus = parts[1]
  /\ rec.species = parts[2]
  /\ rec.subspecies = RemainingTokens(parts)
  /\ rec.scientific_name = parts[1] \o <<" ">> \o parts[2]

\* C16: when genus or specificEpithet is missing, the name parts of the
\* record come from the cleaned full name: genus is its first token, the
\* epithet its second, the subspecies the remaining tokens joined by blanks
\* (absent when there are none), and scientific_name is the two-token form
C16_PartsFromCleanedFullName ==
  (Processed1 /\ ~HasGenusAndEpithet(arg[1]) /\ Len(out) = 1
     /\ ~Truthy(arg[1].infraspecificEpithet)) =>
    HoldsParts(out[1], Split(clean_scientific_name(OccurrenceFullName(arg[1]))))

Loaded == fn = "load_gbif_bulk_download" /\ returned = 2

\* the taxonomic-status tokens C17 names
StatusTokens ==
  {<<"a","c","c","e","p","t","e","d">>, <<"s","y","n","o","n","y","m">>, <<"d","o","u","b","t","f","u","l">>, <<"u","n","k","n","o","w","n">>, <<"n","a">>}

\* the tokens the two scripts discard between them
DiscardedTokens ==
  StatusTokens \cup {<<"n","a","n">>, <<"n","o","n","e">>, <<>>}

\* the one record of the frame has the subspecies ssp and the lookup of the
\* record was called with it
SubspeciesIs(ssp) ==
  /\ Len(out.frame) = 1 /\ out.frame[1].subspecies = ssp
  /\ Len(out.lookups) = 1 /\ out.lookups[1][2] = ssp

\* C17 as stated: an infraspecificEpithet equal, ignoring case, to accepted,
\* synonym, doubtful, unknown or na is treated as absent in the aggregator
\* record and in the call of lookup_mimicry; any other non-empty value is
\* kept, trimmed
C17_OnlyStatusTokensDiscarded ==
  (Loaded /\ Len(out.file) = 1) =>
    IF Lower(arg[1].infraspecificEpithet) \in StatusTokens \cup {<<>>}
    THEN SubspeciesIs(None)
    ELSE SubspeciesIs(Strip(arg[1].infraspecificEpithet))

\* C17 as the code has it: the value is trimmed first, and nan, none and a
\* value of blanks only are treated as absent too
C17_StatusAndNullTokensDiscarded ==
  (Loaded /\ Len(out.file) = 1) =>
    IF Lower(Strip(arg[1].infraspecificEpithet)) \in DiscardedTokens
    THEN SubspeciesIs(None)
    ELSE SubspeciesIs(Strip(arg[1].infraspecificEpithet))

\* a row with the infraspecificEpithet 'Synonym' gave a record without
\* subspecies, looked up without subspecies
C17_Witness ==
  /\ Loaded
  /\ arg[1].infraspecificEpithet = <<"S","y","n","o","n","y","m">>
  /\ SubspeciesIs(None)

\* ------------------------------------------------------------------------
\* normalize_mimicry
\* ------------------------------------------------------------------------
\* C18: normalize_mimicry returns 'Unknown' or a non-empty Title-Case string;
\* it maps a missing value and '', 'nan' and 'unknown' in any letter case to
\* 'Unknown', and never returns an empty or whitespace-only string
C18_RingIsTitleCaseOrUnknown ==
  (fn = "normalize_mimicry" /\ returned = 1) =>
    /\ Strip(out) # <<>>
    /\ out = Title(out)
    /\ (arg = None \/ Lower(arg) \in {S_empty, S_nan, Lower(S_Unknown)}) => out = S_Unknown

\* ------------------------------------------------------------------------
\* collection_location
\* ------------------------------------------------------------------------
\* the priority order the specification gives
PriorityOrder ==
  <<"locality", "verbatimLocality", "municipality", "county", "stateProvince">>

\* a value that is not null and, trimmed and case-folded, no placeholder
Qualifies(value) ==
  /\ value # None
  /\ Lower(Strip(value)) \notin {<<>>, <<"n","a","n">>, <<"n","o","n","e">>, <<"n","a">>}

\* the first field of the priority order whose value is in the set of
\* accepted fields (0 when there is none)
FirstOf(accepted) ==
  IF \E i \in 1..Len(PriorityOrder) : PriorityOrder[i] \in accepted
  THEN CHOOSE i \in 1..Len(PriorityOrder) :
         /\ PriorityOrder[i] \in accepted
         /\ \A j \in 1..(i - 1) : PriorityOrder[j] \notin accepted
  ELSE 0

QualifyingFields(record) ==
  {PriorityOrder[i] : i \in {k \in 1..Len(PriorityOrder) : Qualifies(record[PriorityOrder[k]])}}

TruthyFields(record) ==
  {PriorityOrder[i] : i \in {k \in 1..Len(PriorityOrder) : Truthy(record[PriorityOrder[k]])}}

GotLocation == fn = "get_collection_location" /\ returned = 1

\* C19: get_collection_location returns the trimmed value of the first
\* candidate field whose value is not null and, trimmed and case-folded, is
\* none of '', 'nan', 'none', 'na'; it returns nothing when no field
\* qualifies, and never an empty string or a placeholder
C19_FirstQualifyingLocation ==
  GotLocation =>
    /\ IF FirstOf(QualifyingFields(arg)) = 0 THEN out = None
       ELSE out = Strip(arg[PriorityOrder[FirstOf(QualifyingFields(arg))]])
    /\ out # None => Qualifies(out)

\* locality '', verbatimLocality 'nan', a placeholder in municipality and
\* county 'Lo': the county was returned
C19_Witness ==
  /\ GotLocation
  /\ arg.locality = <<>>
  /\ arg.verbatimLocality = <<"n","a","n">>
  /\ ~Qualifies(arg.municipality) /\ arg.municipality # <<>>
  /\ arg.county = <<"L","o">>
  /\ Truthy(arg.stateProvince)
  /\ out = <<"L","o">>

\* C20: every place that resolves collection_location takes the first
\* value it accepts in the order locality, verbatimLocality, municipality,
\* county, stateProvince: get_collection_location and the best_location of
\* the enrichment script
C20_SamePriorityEverywhere ==
  /\ GotLocation =>
       (out # None => out = Strip(arg[PriorityOrder[FirstOf(QualifyingFields(arg))]]))
  /\ (fn = "best_location" /\ returned = 1) =>
       (out # None => out = arg[PriorityOrder[FirstOf(TruthyFields(arg))]])

\* ------------------------------------------------------------------------
\* sequencing_status
\* ------------------------------------------------------------------------
Classified == fn = "determine_sequencing_status" /\ returned = 1

\* the row has no value under the key: the key is missing, or holds None
\* or NaN
IsNullCell(row, key) == key \notin DOMAIN row \/ row[key] \in {None, PyNone}

\* the text of a cell, empty for a null cell
CellText(row, key) == IF IsNullCell(row, key) THEN <<>> ELSE row[key]

\* C21: determine_sequencing_status returns 'Sequenced' exactly when the
\* Tube_1_rack value does not contain 'Not in TOL' and its length after
\* trimming surrounding whitespace exceeds 5; a rack of trimmed length 5 or
\* less, a missing rack and a null rack are never 'Sequenced'
C21_SequencedIffLongTrimmedRack ==
  Classified =>
    (out = <<"S","e","q","u","e","n","c","e","d">> <=>
       /\ ~Contains(CellText(arg, "Tube_1_rack"), <<"N","o","t"," ","i","n"," ","T","O","L">>)
       /\ Len(Strip(CellText(arg, "Tube_1_rack"))) > 5)

StatusOfCode(code) ==
  CASE code = <<"H","U","M","A","N","_","O","B","S","E","R","V","A","T","I","O","N">> -> <<"O","b","s","e","r","v","a","t","i","o","n">>
    [] code = <<"M","A","C","H","I","N","E","_","O","B","S","E","R","V","A","T","I","O","N">> -> <<"O","b","s","e","r","v","a","t","i","o","n">>
    [] code = <<"P","R","E","S","E","R","V","E","D","_","S","P","E","C","I","M","E","N">> -> <<"M","u","s","e","u","m"," ","S","p","e","c","i","m","e","n">>
    [] code = <<"M","A","T","E","R","I","A","L","_","S","A","M","P","L","E">> -> <<"M","u","s","e","u","m"," ","S","p","e","c","i","m","e","n">>
    [] code = <<"L","I","V","I","N","G","_","S","P","E","C","I","M","E","N">> -> <<"L","i","v","i","n","g"," ","S","p","e","c","i","m","e","n">>
    [] OTHER -> <<"G","B","I","F"," ","R","e","c","o","r","d">>

\* C23: the sequencing_status of every aggregator record is one of
\* 'Observation', 'Museum Specimen', 'Living Specimen', 'GBIF Record',
\* obtained from its basis_of_record by the fixed table, and it is 'GBIF
\* Record' when the code is missing, is not in the table, or the file has
\* no basis_of_record column
C23_StatusFromBasisOfRecord ==
  (Loaded /\ Len(out.file) = 1) =>
    /\ Len(out.frame) = 1
    /\ out.frame[1].sequencing_status \in
         {<<"O","b","s","e","r","v","a","t","i","o","n">>, <<"M","u","s","e","u","m"," ","S","p","e","c","i","m","e","n">>,
          <<"L","i","v","i","n","g"," ","S","p","e","c","i","m","e","n">>, <<"G","B","I","F"," ","R","e","c","o","r","d">>}
    /\ out.frame[1].sequencing_status =
         IF "basis_of_record" \in DOMAIN out.file[1]
         THEN StatusOfCode(out.file[1].basis_of_record)
         ELSE <<"G","B","I","F"," ","R","e","c","o","r","d">>

\* a record with a code the table does not hold got 'GBIF Record'
C23_Witness ==
  /\ Loaded
  /\ Len(out.file) = 1
  /\ "basis_of_record" \in DOMAIN out.file[1]
  /\ out.file[1].basis_of_record = <<"F","O","S","S","I","L","_","S","P","E","C","I","M","E","N">>
  /\ out.frame[1].sequencing_status = <<"G","B","I","F"," ","R","e","c","o","r","d">>

\* the workbook was read and lacks a column of IndexedColumns
LacksColumn ==
  \E i \in 1..Len(dore_df) : ~(IndexedColumns \subseteq DOMAIN dore_df[i])

\* C24: a source batch that lacks an expected column makes the run end in
\* a fatal failure: main never goes on to write output after the loader of
\* such a batch turned it into an empty frame
C24_AbsentColumnIsFatal ==
  LacksColumn => pc \notin {"final", "done"}

\* re-casings of a text, with and without leading and trailing spaces
Recasings(s) ==
  {s, Upper(s), Lower(s), <<" ">> \o Upper(s) \o <<" ">>, Lower(s) \o <<" ">>,
   <<" ", " ">> \o s}

\* the name of a reference row as build_mimicry_lookup writes it
RowName(row) == Str(row.Genus) \o <<" ">> \o Str(row.Species)

\* the subspecies a caller passes for a reference row: re-casings of the
\* cell, or no subspecies for a row that has none
RowSubspecies(row) ==
  IF BuildSubspecies(row) = None THEN {None} ELSE Recasings(Str(row.SubSpecies))

\* C25: the lookup is insensitive to case and to edge whitespace on both
\* key parts and agrees with the build: for every reference row
\* build_mimicry_lookup has processed and every re-casing of its name and
\* subspecies, with or without leading and trailing spaces, lookup_mimicry
\* returns the entry stored for the key of the row; every key of the table
\* is lower-case. The lookups are made against the table during the build
\* and when load_local_data has returned it; the table does not change
\* afterwards
C25_LookupAgreesWithBuild ==
  /\ pc \in {"build", "sanger"} =>
     \A j \in 1..build_idx :
       \A name \in Recasings(RowName(dore_df[j])), ssp \in RowSubspecies(dore_df[j]) :
         /\ HasKey(MIMICRY_LOOKUP, <<SpeciesKeyOf(dore_df[j]), FullKeyOf(dore_df[j])>>)
         /\ lookup_mimicry(MIMICRY_LOOKUP, name, ssp)
              = Get(MIMICRY_LOOKUP, <<SpeciesKeyOf(dore_df[j]), FullKeyOf(dore_df[j])>>)
  /\ \A k \in Keys(MIMICRY_LOOKUP) :
       /\ k[1] = Lower(k[1])
       /\ k[2] # None => k[2] = Lower(k[2])

\* a row whose subspecies cell has an upper-case letter and a trailing space
\* was processed, and the upper-cased, padded name and subspecies find its
\* entry
C25_Witness ==
  \E j \in 1..build_idx :
    LET row == dore_df[j]
    IN /\ BuildSubspecies(row) # None
       /\ Str(row.SubSpecies) # FullKeyOf(row)
       /\ Strip(Str(row.SubSpecies)) # Str(row.SubSpecies)
       /\ lookup_mimicry(MIMICRY_LOOKUP, <<" ">> \o Upper(RowName(row)) \o <<" ">>,
                         <<" ">> \o Upper(Str(row.SubSpecies)) \o <<" ">>)
            = BuildValue(row)
       /\ BuildValue(row) # UnknownPair

\* C26: whenever load_local_data has returned an empty frame (workbook
\* missing, load error, or no reference row with coordinates), the lookup
\* table is empty, and every record of the output has mimicry_ring
\* 'Unknown'
C26_EmptyBatchMeansEmptyTable ==
  (AfterBuild /\ df_local = <<>>) =>
    /\ MIMICRY_LOOKUP = {}
    /\ pc = "done" =>
         \A i \in 1..Len(df_merged) : df_merged[i].mimicry_ring = S_Unknown

\* ------------------------------------------------------------------------
\* wait_for_download
\* ------------------------------------------------------------------------
ApiWaiting == fn = "gbif_download_api.wait_for_download"

\* what the loop of gbif_download_api.wait_for_download has done so far
ApiWaitIsBounded ==
  ApiWaiting =>
    /\ polls <= MAX_POLL_ATTEMPTS
    /\ wait_pc \in {"poll", "sleep"} =>
         status \notin {"SUCCEEDED"} \cup FailedStatuses
    /\ result = "return data" <=> status = "SUCCEEDED"
    /\ result = "exit: download failed" <=> status \in FailedStatuses
    /\ result = "exit: timed out" =>
         /\ polls = MAX_POLL_ATTEMPTS
         /\ status \notin {"SUCCEEDED"} \cup FailedStatuses
    /\ (wait_pc = "poll" /\ polls = MAX_POLL_ATTEMPTS) => ENABLED ApiTimeout

\* C27: gbif_download_api.wait_for_download always terminates after at
\* most MAX_POLL_ATTEMPTS (120) status requests, whatever the replies and
\* request errors: it returns the status data on the first SUCCEEDED reply,
\* exits with an error on the first FAILED, KILLED or CANCELLED reply, and
\* exits with a timeout error when no terminal status arrived within the 120
\* requests; a failed request counts as one attempt
C27_TerminatesWithinMaxPolls ==
  /\ []ApiWaitIsBounded
  /\ ApiWaiting ~> (wait_pc = "done")

\* 120 requests were made, the last of them failed, and the function exited
\* with the timeout error
C27_Witness ==
  /\ ApiWaiting
  /\ wait_pc = "done"
  /\ result = "exit: timed out"
  /\ polls = MAX_POLL_ATTEMPTS
  /\ status = "<unset>"

\* C28: gbif_download.wait_for_download eventually returns, whatever the
\* replies: when the download never reaches SUCCEEDED, FAILED, KILLED or
\* CANCELLED, it returns False with a timeout once the elapsed time exceeds
\* max_wait_minutes, whatever non-terminal status GBIF reports, a status
\* outside PREPARING, RUNNING, PENDING included
C28_EventuallyReturns ==
  (fn = "gbif_download.wait_for_download") ~> (wait_pc = "done")

\* ------------------------------------------------------------------------
\* get_source and get_observation_url
\* ------------------------------------------------------------------------
\* the text of a field of the row, empty for a null
FieldText(x) == IF x = None THEN <<>> ELSE x

IsObservationUrl(u) == StartsWith(u, <<"h","t","t","p","s",":","/","/","w","w","w",".","i","n","a","t","u","r","a","l","i","s","t",".","o","r","g","/","o","b","s","e","r","v","a","t","i","o","n","s","/">>)

\* the reference URL of the row, else the GBIF occurrence page
FallbackUrl(row) ==
  IF StartsWith(FieldText(row.references), <<"h","t","t","p">>)
  THEN row.references
  ELSE <<"h","t","t","p","s",":","/","/","w","w","w",".","g","b","i","f",".","o","r","g","/","o","c","c","u","r","r","e","n","c","e","/">> \o row.gbifID

\* what C29 has of get_observation_url
UrlAgreesWithSource ==
  (fn = "get_observation_url" /\ returned = 1) =>
    /\ out # <<>>
    /\ IsObservationUrl(out) =>
         get_source(arg) = "iNaturalist" \/ IsObservationUrl(FieldText(arg.references))
    /\ ~(get_source(arg) = "iNaturalist" /\ IsObservationUrl(out)) =>
         out = FallbackUrl(arg)

\* C29 as stated: get_source returns 'iNaturalist' exactly when datasetKey
\* is the iNaturalist dataset key, or institutionCode equals 'inaturalist'
\* ignoring case, or occurrenceID contains 'inaturalist.org', and 'GBIF'
\* otherwise; get_observation_url returns an inaturalist.org observation URL
\* only for rows get_source tags 'iNaturalist', unless references is such a
\* URL, and always returns a non-empty URL, falling back to the references
\* URL and then to the GBIF occurrence page
C29_SourceByOccurrenceIdAsWritten ==
  /\ (fn = "get_source" /\ returned = 1) =>
       /\ out \in {"iNaturalist", "GBIF"}
       /\ out = "iNaturalist" <=>
            \/ FieldText(arg.datasetKey) = INATURALIST_DATASET_KEY
            \/ Lower(FieldText(arg.institutionCode)) = <<"i","n","a","t","u","r","a","l","i","s","t">>
            \/ Contains(FieldText(arg.occurrenceID), <<"i","n","a","t","u","r","a","l","i","s","t",".","o","r","g">>)
  /\ UrlAgreesWithSource

\* C29 amended: as stated, with the occurrenceID compared ignoring case as
\* well: a row is 'iNaturalist' exactly when datasetKey is the iNaturalist
\* dataset key, or institutionCode equals 'inaturalist' ignoring case, or
\* occurrenceID contains 'inaturalist.org' ignoring case
C29_SourceIgnoringCase ==
  /\ (fn = "get_source" /\ returned = 1) =>
       /\ out \in {"iNaturalist", "GBIF"}
       /\ out = "iNaturalist" <=>
            \/ FieldText(arg.datasetKey) = INATURALIST_DATASET_KEY
            \/ Lower(FieldText(arg.institutionCode)) = <<"i","n","a","t","u","r","a","l","i","s","t">>
            \/ Contains(Lower(FieldText(arg.occurrenceID)), <<"i","n","a","t","u","r","a","l","i","s","t",".","o","r","g">>)
  /\ UrlAgreesWithSource

\* a row whose occurrenceID has 'iNaturalist.org' in mixed case, and nothing
\* else of iNaturalist, was tagged 'iNaturalist'
C29_Witness ==
  /\ fn = "get_source"
  /\ returned = 1
  /\ out = "iNaturalist"
  /\ arg.datasetKey # INATURALIST_DATASET_KEY
  /\ Lower(arg.institutionCode) # <<"i","n","a","t","u","r","a","l","i","s","t">>
  /\ ~Contains(FieldText(arg.occurrenceID), <<"i","n","a","t","u","r","a","l","i","s","t",".","o","r","g">>)

\* ------------------------------------------------------------------------
\* load_multimedia_lookup
\* ------------------------------------------------------------------------
\* the rows of multimedia.txt that are an image of the occurrence id: the
\* type contains 'StillImage' and the identifier is not empty
ImageRowsOf(rows, id) ==
  {i \in 1..Len(rows) :
     /\ rows[i].gbifID = id
     /\ Contains(rows[i].type, <<"S","t","i","l","l","I","m","a","g","e">>)
     /\ rows[i].identifier # <<>>}

FirstImageRow(rows, id) ==
  CHOOSE i \in ImageRowsOf(rows, id) : \A j \in ImageRowsOf(rows, id) : i <= j

\* C30: the lookup is first-write-wins per occurrence: for any sequence of
\* multimedia rows, the image URL stored for a gbifID is the identifier of
\* the first row in file order with that gbifID, a type containing
\* 'StillImage' and a non-empty identifier; rows of other media types or
\* with an empty identifier never create or change an entry
C30_FirstImageWins ==
  (fn = "load_multimedia_lookup" /\ returned = 1) =>
    /\ \A i \in 1..Len(arg) :
         arg[i].gbifID # <<>> =>
           IF ImageRowsOf(arg, arg[i].gbifID) = {}
           THEN ~HasKey(out, arg[i].gbifID)
           ELSE /\ HasKey(out, arg[i].gbifID)
                /\ Get(out, arg[i].gbifID)
                     = arg[FirstImageRow(arg, arg[i].gbifID)].identifier
    /\ \A k \in Keys(out) : \E i \in 1..Len(arg) : arg[i].gbifID = k /\ k # <<>>

\* an occurrence with a sound row, then two images: the first image is stored
C30_Witness ==
  /\ fn = "load_multimedia_lookup"
  /\ returned = 1
  /\ Len(arg) = 3
  /\ arg[1].gbifID = arg[2].gbifID /\ arg[2].gbifID = arg[3].gbifID
  /\ ~Contains(arg[1].type, <<"S","t","i","l","l","I","m","a","g","e">>)
  /\ ImageRowsOf(arg, arg[1].gbifID) = {2, 3}
  /\ arg[2].identifier # arg[3].identifier
  /\ HasKey(out, arg[1].gbifID)
  /\ Get(out, arg[1].gbifID) = arg[2].identifier

====
